---- MODULE Spec2Model ----
(***************************************************************************)
(* A model of the voxeling client worker (src/src/client-worker.js), the   *)
(* horizontal-merge mesher it calls (src/src/lib/meshers/                  *)
(* horizontal-merge.js) and the collaborators they need.                   *)
(*                                                                         *)
(* JavaScript objects used as maps are functions whose DOMAIN is the set   *)
(* of keys; objects used as sets whose key order the code iterates         *)
(* (Object.keys, for-in) are sequences without repetition, in insertion    *)
(* order.  Every handler runs to completion (one thread, an event loop),   *)
(* so every handler is one action.                                         *)
(***************************************************************************)
EXTENDS Integers, Sequences, FiniteSets, TLC

(***************************************************************************)
(* Configuration (config.js is not part of the sources; the values are the *)
(* ones the model is run with).                                            *)
(***************************************************************************)
\* config.chunkSize, as read by client-worker.js
chunkSize == 1
\* config.worldRadius, as read by worker.lastWorldChunks
worldRadius == 6
\* var chunkArrayLength = config.chunkSize * config.chunkSize * config.chunkSize
chunkArrayLength == chunkSize * chunkSize * chunkSize
\* require('./lib/max-concurrent')(10)
MaxConcurrentLimit == 10
\* if (distanceAway < 3)
CloseDistance == 3
\* if (i > 9) break
MeshBreakIndex == 9
\* the material substituted for an unknown one: voxelTextureValue = 3
DefaultMaterial == 3
\* the threshold between the two classes of shouldSkipFace: currentVoxelValue < 100;
\* "If we got here, the current face is transparent" is the branch from 100 on
TransparentFrom == 100
\* "Stop after sending 10 meshes"
MeshesPerTick == 10

(***************************************************************************)
(* Bounds of the model.                                                    *)
(***************************************************************************)
\* the largest draw distance a regionChange of Spec is called with
MaxDrawDistance == 3
\* the regionChange calls of a run of Spec
MaxRegionChanges == 3
\* the voxel edits of a run of Spec
MaxEdits == 1
\* in SpecCap a response comes in request order or overtakes this many earlier
\* requests less one
ReorderWindow == 3

(***************************************************************************)
(* Small helpers.                                                          *)
(***************************************************************************)
Abs(n) == IF n < 0 THEN -n ELSE n

Max2(a, b) == IF a < b THEN b ELSE a

Min2(a, b) == IF a < b THEN a ELSE b

SeqToSet(s) == {s[i] : i \in 1..Len(s)}

InSeq(e, s) == \E i \in 1..Len(s) : s[i] = e

\* obj[key] = true on an insertion-ordered object
AddKey(s, e) == IF InSeq(e, s) THEN s ELSE Append(s, e)

\* delete obj[key]
DeleteKey(s, e) == SelectSeq(s, LAMBDA k : k # e)

\* s without its i-th element
RemoveAt(s, i) == [j \in 1..(Len(s) - 1) |-> IF j < i THEN s[j] ELSE s[j + 1]]

\* what reading a missing array element or property gives: it is not 0, not
\* greater than anything and no key of a table, as JavaScript's undefined
undefined == -1

(***************************************************************************)
(* The Coordinate Mapper (src/lib/coordinates is not part of the sources). *)
(* A chunk's identifier is the triple of its chunk-grid coordinates.       *)
(***************************************************************************)
coordinatesToChunkID(cs, x, y, z) == <<x \div cs, y \div cs, z \div cs>>

coordinatesToVoxelIndex(cs, x, y, z) ==
    ((y % cs) * cs * cs) + ((z % cs) * cs) + (x % cs)

chunkPositionOf(cs, chunkId) == <<chunkId[1] * cs, chunkId[2] * cs, chunkId[3] * cs>>

\* distance in chunk units (Chebyshev)
chunkDistance(a, b) ==
    Max2(Abs(a[1] - b[1]), Max2(Abs(a[2] - b[2]), Abs(a[3] - b[3])))

\* The chunks the model covers.  On the x axis: the last three chunks of the
\* world and the chunk beyond them (out of bounds).  At the other end of the
\* world: a patch of fifteen chunks.
LineChunks == {<<x, 0, 0>> : x \in (worldRadius - 2)..(worldRadius + 1)}

PatchChunks == {<<x, 0, z>> : x \in (-worldRadius)..(2 - worldRadius), z \in -2..2}

ModelChunks == LineChunks \cup PatchChunks

\* lexicographic order of chunk identifiers: the order of the nested loops
ChunkBefore(a, b) ==
    \/ a[1] < b[1]
    \/ a[1] = b[1] /\ a[2] < b[2]
    \/ a[1] = b[1] /\ a[2] = b[2] /\ a[3] < b[3]

RECURSIVE SortChunks(_)
SortChunks(S) ==
    IF S = {} THEN <<>>
    ELSE LET first == CHOOSE a \in S : \A b \in S \ {a} : ChunkBefore(a, b)
         IN  <<first>> \o SortChunks(S \ {first})

ModelOrder == SortChunks(ModelChunks)

\* nearbyChunkIDsEach(position, drawDistance, callback): the calls of the
\* callback, in order, as records
nearbyChunkIDsEach(cs, playerPosition, drawDistance) ==
    LET center == coordinatesToChunkID(cs, playerPosition[1], playerPosition[2],
                                       playerPosition[3])
        order  == SelectSeq(ModelOrder,
                            LAMBDA c : chunkDistance(c, center) <= drawDistance)
    IN  [i \in 1..Len(order) |->
            [chunkId       |-> order[i],
             chunkPosition |-> chunkPositionOf(cs, order[i]),
             distanceAway  |-> chunkDistance(order[i], center)]]

(***************************************************************************)
(* The Texture Atlas Table (config.voxels is not part of the sources).     *)
(***************************************************************************)
voxelsToTextures ==
    (3   :> [textures |-> <<3, 3, 3, 3, 3, 3>>]) @@
    (50  :> [textures |-> <<50, 50, 50, 50, 50, 50>>]) @@
    (120 :> [textures |-> <<14, 14, 14, 14, 14, 14>>]) @@
    (150 :> [textures |-> <<150, 150, 150, 150, 150, 150>>])

(***************************************************************************)
(* The mesher, horizontal-merge.js.  out is the sequence of the faces      *)
(* addFace was called with, in call order.  In the loops,                  *)
(* CHOOSE r \in {F(x) : x \in {v}} : TRUE is F(v) with v evaluated first:   *)
(* the iterations run one after the other.                                 *)
(***************************************************************************)
\* voxels[index] of a typed array
VoxelAt(voxels, index) ==
    IF index >= 0 /\ index < Len(voxels) THEN voxels[index + 1] ELSE undefined

faceIndex(face) ==
    CASE face = "top"    -> 0
      [] face = "front"  -> 1
      [] face = "left"   -> 2
      [] face = "back"   -> 3
      [] face = "right"  -> 4
      [] face = "bottom" -> 5

\* the rule with the two classes the other way round
shouldSkipFaceOpaqueAbove(currentVoxelValue, opposingVoxelValue) ==
    IF opposingVoxelValue = 0 THEN FALSE
    ELSE IF currentVoxelValue > TransparentFrom - 1
         THEN (IF opposingVoxelValue < TransparentFrom THEN FALSE ELSE TRUE)
         ELSE TRUE

shouldSkipFace(currentVoxelValue, opposingVoxelValue) ==
    IF opposingVoxelValue = 0 THEN FALSE
    ELSE IF currentVoxelValue < TransparentFrom
         THEN (IF opposingVoxelValue > TransparentFrom - 1 THEN FALSE ELSE TRUE)
         ELSE (IF opposingVoxelValue > 0 THEN TRUE ELSE FALSE)

\* the cell a face looks at
opposingCell(face, x, y, z) ==
    CASE face = "front"  -> <<x, y, z - 1>>
      [] face = "back"   -> <<x, y, z + 1>>
      [] face = "left"   -> <<x - 1, y, z>>
      [] face = "right"  -> <<x + 1, y, z>>
      [] face = "top"    -> <<x, y + 1, z>>
      [] face = "bottom" -> <<x, y - 1, z>>

\* a lookup that hides the faces toward chunks that are not in the cache
isFaceBlockedUncachedHidden(cache, basePosition, voxels, cs, face, x0, y0, z0, currentVoxelValue) ==
    LET o == opposingCell(face, x0, y0, z0)
        x == o[1]
        y == o[2]
        z == o[3]
    IN  IF x < 0 \/ x >= cs \/ y < 0 \/ y >= cs \/ z < 0 \/ z >= cs
        THEN LET wx == x + basePosition[1]
                 wy == y + basePosition[2]
                 wz == z + basePosition[3]
                 opposingChunkID == coordinatesToChunkID(cs, wx, wy, wz)
                 opposingIndex   == coordinatesToVoxelIndex(cs, wx, wy, wz)
             IN  IF opposingChunkID \in DOMAIN cache
                 THEN shouldSkipFace(currentVoxelValue,
                                     VoxelAt(cache[opposingChunkID].voxels, opposingIndex))
                 ELSE TRUE
        ELSE shouldSkipFace(currentVoxelValue,
                            VoxelAt(voxels, coordinatesToVoxelIndex(cs, x, y, z)))

isFaceBlocked(cache, basePosition, voxels, cs, face, x0, y0, z0, currentVoxelValue) ==
    LET o == opposingCell(face, x0, y0, z0)
        x == o[1]
        y == o[2]
        z == o[3]
    IN  IF x < 0 \/ x >= cs \/ y < 0 \/ y >= cs \/ z < 0 \/ z >= cs
        THEN LET wx == x + basePosition[1]
                 wy == y + basePosition[2]
                 wz == z + basePosition[3]
                 opposingChunkID == coordinatesToChunkID(cs, wx, wy, wz)
                 opposingIndex   == coordinatesToVoxelIndex(cs, wx, wy, wz)
             IN  IF opposingChunkID \in DOMAIN cache
                 THEN shouldSkipFace(currentVoxelValue,
                                     VoxelAt(cache[opposingChunkID].voxels, opposingIndex))
                 ELSE FALSE
        ELSE shouldSkipFace(currentVoxelValue,
                            VoxelAt(voxels, coordinatesToVoxelIndex(cs, x, y, z)))

\* addFace(basePosition, face, info): one more face in out
addFace(out, basePosition, face, info) ==
    Append(out, [face         |-> face,
                 textureValue |-> info.textureValue,
                 basePosition |-> basePosition,
                 start        |-> info.start,
                 end          |-> info.end])

\* textureOffsets: texture id -> [bottom, top, right], the rows of the atlas
textureOffsets == [t \in {3, 14, 50, 150} |-> <<10 * t, (10 * t) + 1, (10 * t) + 2>>]

\* the 18 numbers addFace writes to out[textureValue].position for one face
facePoints(face, startX, startY, startZ, endX, endY, endZ) ==
    CASE face = "back"     -> << startX, startY, startZ + 1,
                                 endX + 1, startY, startZ + 1,
                                 endX + 1, endY + 1, startZ + 1,
                                 startX, startY, startZ + 1,
                                 endX + 1, endY + 1, startZ + 1,
                                 startX, endY + 1, startZ + 1 >>
      [] face = "front"    -> << endX + 1, startY, startZ,
                                 startX, startY, startZ,
                                 startX, endY + 1, startZ,
                                 endX + 1, startY, startZ,
                                 startX, endY + 1, startZ,
                                 endX + 1, endY + 1, startZ >>
      [] face = "left"     -> << startX, startY, startZ,
                                 startX, startY, endZ + 1,
                                 startX, endY + 1, endZ + 1,
                                 startX, startY, startZ,
                                 startX, endY + 1, endZ + 1,
                                 startX, startY + 1, startZ >>
      [] face = "right"    -> << startX + 1, startY, endZ + 1,
                                 startX + 1, startY, startZ,
                                 startX + 1, startY + 1, startZ,
                                 startX + 1, startY, endZ + 1,
                                 startX + 1, startY + 1, startZ,
                                 startX + 1, endY + 1, endZ + 1 >>
      [] face = "top"      -> << startX, startY + 1, endZ + 1,
                                 endX + 1, startY + 1, endZ + 1,
                                 endX + 1, startY + 1, startZ,
                                 startX, startY + 1, endZ + 1,
                                 endX + 1, startY + 1, startZ,
                                 startX, startY + 1, startZ >>
      [] face = "bottom"   -> << startX, startY, startZ,
                                 endX + 1, startY, startZ,
                                 endX + 1, startY, endZ + 1,
                                 startX, startY, startZ,
                                 endX + 1, startY, endZ + 1,
                                 startX, startY, endZ + 1 >>

\* the 12 numbers addFace writes to out[textureValue].texcoord for one face
faceTexcoord(face, startX, startY, startZ, endX, endY, endZ, textureBottom, textureTop, textureRight) ==
    CASE face = "back"     -> << 0, textureBottom,
                                 1, textureBottom,
                                 1, textureTop,
                                 0, textureTop,
                                 1, textureTop,
                                 0, textureRight >>
      [] face = "front"    -> << 0, 0,
                                 endX - startX + 1, 0,
                                 endX - startX + 1, endY - startY + 1,
                                 0, 0,
                                 endX - startX + 1, endY - startY + 1,
                                 0, endY - startY + 1 >>
      [] face = "left"     -> << 0, 0,
                                 endZ - startZ + 1, 0,
                                 endZ - startZ + 1, endY - startY + 1,
                                 0, 0,
                                 endZ - startZ + 1, endY - startY + 1,
                                 0, endY - startY + 1 >>
      [] face = "right"    -> << 0, 0,
                                 endZ - startZ + 1, 0,
                                 endZ - startZ + 1, endY - startY + 1,
                                 0, 0,
                                 endZ - startZ + 1, endY - startY + 1,
                                 0, endY - startY + 1 >>
      [] face = "top"      -> << 0, 0,
                                 endX - startX + 1, 0,
                                 endX - startX + 1, endZ - startZ + 1,
                                 0, 0,
                                 endX - startX + 1, endZ - startZ + 1,
                                 0, endZ - startZ + 1 >>
      [] face = "bottom"   -> << 0, 0,
                                 endX - startX + 1, 0,
                                 endX - startX + 1, endZ - startZ + 1,
                                 0, 0,
                                 endX - startX + 1, endZ - startZ + 1,
                                 0, endZ - startZ + 1 >>

\* the 18 numbers addFace writes to out[textureValue].normal for one face
faceNormals(face) ==
    CASE face = "back"     -> << 0, 0, 1,
                                 0, 0, 1,
                                 0, 0, 1,
                                 0, 0, 1,
                                 0, 0, 1,
                                 0, 0, 1 >>
      [] face = "front"    -> << 0, 0, -1,
                                 0, 0, -1,
                                 0, 0, -1,
                                 0, 0, -1,
                                 0, 0, -1,
                                 0, 0, -1 >>
      [] face = "left"     -> << -1, 0, 0,
                                 -1, 0, 0,
                                 -1, 0, 0,
                                 -1, 0, 0,
                                 -1, 0, 0,
                                 -1, 0, 0 >>
      [] face = "right"    -> << 1, 0, 0,
                                 1, 0, 0,
                                 1, 0, 0,
                                 1, 0, 0,
                                 1, 0, 0,
                                 1, 0, 0 >>
      [] face = "top"      -> << 0, 1, 0,
                                 0, 1, 0,
                                 0, 1, 0,
                                 0, 1, 0,
                                 0, 1, 0,
                                 0, 1, 0 >>
      [] face = "bottom"   -> << 0, -1, 0,
                                 0, -1, 0,
                                 0, -1, 0,
                                 0, -1, 0,
                                 0, -1, 0,
                                 0, -1, 0 >>

\* addFace writing every face over its first voxel only, as if end were start
faceWritesUnextended(q) ==
    LET startX == q.basePosition[1] + q.start[1]
        startY == q.basePosition[2] + q.start[2]
        startZ == q.basePosition[3] + q.start[3]
        offs   == textureOffsets[q.textureValue]
    IN  [position |-> facePoints(q.face, startX, startY, startZ, startX, startY, startZ),
         texcoord |-> faceTexcoord(q.face, startX, startY, startZ, startX, startY, startZ,
                                   offs[1], offs[2], offs[3]),
         normal   |-> faceNormals(q.face)]

\* addFace writing the normal once per triangle instead of once per vertex
faceWritesNormalPerTriangle(q) ==
    LET startX == q.basePosition[1] + q.start[1]
        startY == q.basePosition[2] + q.start[2]
        startZ == q.basePosition[3] + q.start[3]
        endX   == q.basePosition[1] + q.end[1]
        endY   == q.basePosition[2] + q.end[2]
        endZ   == q.basePosition[3] + q.end[3]
        offs   == textureOffsets[q.textureValue]
    IN  [position |-> facePoints(q.face, startX, startY, startZ, endX, endY, endZ),
         texcoord |-> faceTexcoord(q.face, startX, startY, startZ, endX, endY, endZ,
                                   offs[1], offs[2], offs[3]),
         normal   |-> SubSeq(faceNormals(q.face), 1, 6)]

\* what the addFace call recorded as q wrote to the three buffers
faceWrites(q) ==
    LET startX == q.basePosition[1] + q.start[1]
        startY == q.basePosition[2] + q.start[2]
        startZ == q.basePosition[3] + q.start[3]
        endX   == q.basePosition[1] + q.end[1]
        endY   == q.basePosition[2] + q.end[2]
        endZ   == q.basePosition[3] + q.end[3]
        offs   == textureOffsets[q.textureValue]
    IN  [position |-> facePoints(q.face, startX, startY, startZ, endX, endY, endZ),
         texcoord |-> faceTexcoord(q.face, startX, startY, startZ, endX, endY, endZ,
                                   offs[1], offs[2], offs[3]),
         normal   |-> faceNormals(q.face)]

\* the data of one buffer of out[textureValue] below its offset, from the k-th
\* addFace call on
RECURSIVE bufferData(_, _, _, _)
bufferData(out, textureValue, buffer, k) ==
    IF k > Len(out) THEN <<>>
    ELSE (IF out[k].textureValue = textureValue THEN faceWrites(out[k])[buffer] ELSE <<>>)
         \o bufferData(out, textureValue, buffer, k + 1)

\* the object mesh returns: texture id -> {position, texcoord, normal}, each
\* {offset, data}
outObject(out) ==
    [textureValue \in {out[k].textureValue : k \in 1..Len(out)} |->
        [buffer \in {"position", "texcoord", "normal"} |->
            LET data == bufferData(out, textureValue, buffer, 1)
            IN  [offset |-> Len(data), data |-> data]]]

\* pool.malloc('float32', 128000): the length of each buffer of out[textureValue]
poolCapacity == 128000

\* the numbers one addFace call of direction face writes to a buffer
faceLength(face, buffer) ==
    Len(faceWrites([face |-> face, textureValue |-> 3, basePosition |-> <<0, 0, 0>>,
                    start |-> <<0, 0, 0>>, end |-> <<0, 0, 0>>])[buffer])

\* out[textureValue][buffer].offset after the addFace calls recorded in out:
\* every write is data[offset++] = ..., whatever the length of data
bufferOffset(out, textureValue, buffer) ==
    LET calls(face) == Cardinality({k \in 1..Len(out) : /\ out[k].textureValue = textureValue
                                                        /\ out[k].face = face})
    IN  (calls("front") * faceLength("front", buffer))
          + (calls("back") * faceLength("back", buffer))
          + (calls("top") * faceLength("top", buffer))
          + (calls("bottom") * faceLength("bottom", buffer))
          + (calls("left") * faceLength("left", buffer))
          + (calls("right") * faceLength("right", buffer))

\* addFaces(basePosition, current): the open runs, in the key order of current
RECURSIVE addFaces(_, _, _, _)
addFaces(out, basePosition, current, faces) ==
    IF faces = <<>> THEN out
    ELSE LET face == Head(faces)
         IN  CHOOSE r \in {addFaces(o, basePosition, current, Tail(faces)) :
                 o \in {IF current[face] # <<>>
                        THEN addFace(out, basePosition, face, current[face][1])
                        ELSE out}} : TRUE

\* resetFaces(current); a null run is the empty sequence
resetFaces(faces) == [f \in SeqToSet(faces) |-> <<>>]

\* a sweep that extends the open run over a voxel of another texture
sweepFaceAnyTexture(st, cache, basePosition, voxels, cs, face, x, y, z, voxelTextureValue) ==
    LET textureValue == voxelsToTextures[voxelTextureValue].textures[faceIndex(face) + 1]
        isBlocked    == isFaceBlocked(cache, basePosition, voxels, cs, face, x, y, z,
                                      textureValue)
        fresh        == <<[textureValue |-> textureValue,
                           start |-> <<x, y, z>>, end |-> <<x, y, z>>]>>
        open         == st.adjacent[face]
    IN  IF isBlocked
        THEN IF open # <<>>
             THEN [out      |-> addFace(st.out, basePosition, face, open[1]),
                   adjacent |-> [st.adjacent EXCEPT ![face] = <<>>]]
             ELSE st
        ELSE IF open = <<>>
             THEN [st EXCEPT !.adjacent[face] = fresh]
             ELSE [st EXCEPT !.adjacent[face] = <<[open[1] EXCEPT !.end = <<x, y, z>>]>>]

\* a sweep that closes the open run at every voxel instead of extending it
sweepFaceUnmerged(st, cache, basePosition, voxels, cs, face, x, y, z, voxelTextureValue) ==
    LET textureValue == voxelsToTextures[voxelTextureValue].textures[faceIndex(face) + 1]
        isBlocked    == isFaceBlocked(cache, basePosition, voxels, cs, face, x, y, z,
                                      textureValue)
        fresh        == <<[textureValue |-> textureValue,
                           start |-> <<x, y, z>>, end |-> <<x, y, z>>]>>
        open         == st.adjacent[face]
    IN  IF isBlocked
        THEN IF open # <<>>
             THEN [out      |-> addFace(st.out, basePosition, face, open[1]),
                   adjacent |-> [st.adjacent EXCEPT ![face] = <<>>]]
             ELSE st
        ELSE IF open = <<>>
             THEN [st EXCEPT !.adjacent[face] = fresh]
             ELSE [out      |-> addFace(st.out, basePosition, face, open[1]),
                   adjacent |-> [st.adjacent EXCEPT ![face] = fresh]]

\* the body of "for (var face in adjacent)" for one face of one voxel
sweepFace(st, cache, basePosition, voxels, cs, face, x, y, z, voxelTextureValue) ==
    LET textureValue == voxelsToTextures[voxelTextureValue].textures[faceIndex(face) + 1]
        isBlocked    == isFaceBlocked(cache, basePosition, voxels, cs, face, x, y, z,
                                      textureValue)
        fresh        == <<[textureValue |-> textureValue,
                           start |-> <<x, y, z>>, end |-> <<x, y, z>>]>>
        open         == st.adjacent[face]
    IN  IF isBlocked
        THEN IF open # <<>>
             THEN [out      |-> addFace(st.out, basePosition, face, open[1]),
                   adjacent |-> [st.adjacent EXCEPT ![face] = <<>>]]
             ELSE st
        ELSE IF open = <<>>
             THEN [st EXCEPT !.adjacent[face] = fresh]
             ELSE IF open[1].textureValue = textureValue
                  THEN [st EXCEPT !.adjacent[face] = <<[open[1] EXCEPT !.end = <<x, y, z>>]>>]
                  ELSE [out      |-> addFace(st.out, basePosition, face, open[1]),
                        adjacent |-> [st.adjacent EXCEPT ![face] = fresh]]

RECURSIVE sweepFaces(_, _, _, _, _, _, _, _, _, _)
sweepFaces(st, cache, basePosition, voxels, cs, faces, x, y, z, voxelTextureValue) ==
    IF faces = <<>> THEN st
    ELSE CHOOSE r \in {sweepFaces(s, cache, basePosition, voxels, cs, Tail(faces),
                                  x, y, z, voxelTextureValue) :
             s \in {sweepFace(st, cache, basePosition, voxels, cs, Head(faces),
                              x, y, z, voxelTextureValue)}} : TRUE

\* the index the sweeps read the voxel at (x, y, z) from: part = y * chunkSize,
\* index = part + (z * chunkSize * chunkSize), voxels[index + x]
sweepIndex(cs, x, y, z) == (y * cs) + (z * cs * cs) + x

\* a sweep that passes over a voxel of unknown material as over an empty one
sweepVoxelUnknownSkipped(st, cache, basePosition, voxels, cs, faces, x, y, z) ==
    LET read == VoxelAt(voxels, sweepIndex(cs, x, y, z))
    IN  IF read = 0 \/ read \notin DOMAIN voxelsToTextures
        THEN [out      |-> addFaces(st.out, basePosition, st.adjacent, faces),
              adjacent |-> resetFaces(faces)]
        ELSE sweepFaces(st, cache, basePosition, voxels, cs, faces, x, y, z, read)

\* the body of the innermost loop for the voxel at (x, y, z)
sweepVoxel(st, cache, basePosition, voxels, cs, faces, x, y, z) ==
    LET read == VoxelAt(voxels, sweepIndex(cs, x, y, z))
    IN  IF read = 0
        THEN [out      |-> addFaces(st.out, basePosition, st.adjacent, faces),
              adjacent |-> resetFaces(faces)]
        ELSE sweepFaces(st, cache, basePosition, voxels, cs, faces, x, y, z,
                        IF read \in DOMAIN voxelsToTextures THEN read
                        ELSE DefaultMaterial)

\* one row: the innermost loop from k on, then the flush at the end of the row.
\* alongX: the row runs along x at depth z = fixed (front, back, top, bottom);
\* otherwise along z at x = fixed (left, right).
RECURSIVE sweepRow(_, _, _, _, _, _, _, _, _, _)
sweepRow(st, cache, basePosition, voxels, cs, faces, alongX, y, fixed, k) ==
    IF k >= cs
    THEN [out      |-> addFaces(st.out, basePosition, st.adjacent, faces),
          adjacent |-> resetFaces(faces)]
    ELSE CHOOSE r \in {sweepRow(s, cache, basePosition, voxels, cs, faces, alongX, y,
                                fixed, k + 1) :
             s \in {sweepVoxel(st, cache, basePosition, voxels, cs, faces,
                               IF alongX THEN k ELSE fixed, y,
                               IF alongX THEN fixed ELSE k)}} : TRUE

\* the rows of one pass of one y slice, from row "fixed" on
RECURSIVE sweepRows(_, _, _, _, _, _, _, _, _)
sweepRows(out, cache, basePosition, voxels, cs, faces, alongX, y, fixed) ==
    IF fixed >= cs THEN out
    ELSE CHOOSE r \in {sweepRows(o, cache, basePosition, voxels, cs, faces, alongX, y,
                                 fixed + 1) :
             o \in {sweepRow([out |-> out, adjacent |-> resetFaces(faces)], cache,
                             basePosition, voxels, cs, faces, alongX, y, fixed,
                             0).out}} : TRUE

RECURSIVE calculateFrom(_, _, _, _, _, _)
calculateFrom(out, cache, basePosition, voxels, cs, y) ==
    IF y >= cs THEN out
    ELSE CHOOSE r \in {calculateFrom(xRows, cache, basePosition, voxels, cs, y + 1) :
             xRows \in {sweepRows(zRows, cache, basePosition, voxels, cs,
                                  <<"left", "right">>, FALSE, y, 0) :
                 zRows \in {sweepRows(out, cache, basePosition, voxels, cs,
                                      <<"front", "back", "top", "bottom">>,
                                      TRUE, y, 0)}}} : TRUE

\* calculate adds its faces to the module's out, prev when it starts
calculate(prev, cache, basePosition, voxels, cs) ==
    calculateFrom(prev, cache, basePosition, voxels, cs, 0)

\* a mesher that keeps adding to the object of the call before
resetOutSkipped(prev) == prev

\* out = {}: every call that meshes starts with a new output object
resetOut(prev) == <<>>

\* Meshing.mesh(position, voxels) with the module's out at prev; isNull: the
\* call returned null, out: the object returned, module: the module's out after
mesh(prev, cache, cs, position, voxels) ==
    IF Len(voxels) = 0
    THEN [isNull |-> TRUE, out |-> <<>>, module |-> prev]
    ELSE CHOOSE r \in {[isNull |-> FALSE, out |-> o, module |-> o] :
             o \in {calculate(resetOut(prev), cache, position, voxels, cs)}} : TRUE

(***************************************************************************)
(* The worker, client-worker.js.                                           *)
(***************************************************************************)
VARIABLES
    \* var chunkCache = {}: chunk id -> {chunkID, position, voxels}
    chunkCache,
    \* worker.nearbyChunks, worker.sentClientChunks, worker.sentClientMeshes,
    \* worker.requestedChunks: objects used as sets
    nearbyChunks, sentClientChunks, sentClientMeshes, requestedChunks,
    \* worker.chunkDistances: chunk id -> distance
    chunkDistances,
    \* worker.clientMissingChunks, worker.clientMissingMeshes: objects whose keys
    \* the code iterates, in insertion order
    clientMissingChunks, clientMissingMeshes,
    \* the XMLHttpRequests sent and not yet answered, oldest first; "orphaned"
    \* (history) marks those whose chunk left chunkDistances since they were sent
    xhrs,
    \* MaxConcurrent: the closures started and not yet done, and those waiting
    running, waiting,
    \* the messages of the last handler: postMessage (to the client) and
    \* sendMessage (to the server), in order
    posted,
    \* history: the last handler and what it was called with
    last,
    \* history: per chunk, the index/value pairs written by edits since the last
    \* chunkMesh of the chunk
    pendingEdit,
    \* history: the numbers of regionChange calls and of edits so far
    handled,
    \* the mesher's var out: the faces of the object its last meshing call built
    out,
    \* server.js, var connections: the counter of the connection handler
    connections,
    \* server.js: the connections that arrived, oldest first; connected: handed
    \* to server.connectClient, closed: its close event has fired
    sockets

workerVars == <<chunkCache, nearbyChunks, sentClientChunks, sentClientMeshes,
                requestedChunks, chunkDistances, clientMissingChunks,
                clientMissingMeshes, xhrs, running, waiting, posted, last,
                pendingEdit, handled, out>>

serverVars == <<connections, sockets>>

vars == <<workerVars, serverVars>>

EmptyMap == [k \in {} |-> 0]

\* the same map, in one representation
Normal(f) == [k \in DOMAIN f |-> f[k]]

lastWorldChunks ==
    << -(chunkSize * worldRadius), -(chunkSize * worldRadius), -(chunkSize * worldRadius),
       chunkSize * worldRadius, chunkSize * worldRadius, chunkSize * worldRadius >>

\* a test that looks at the lower bounds of the world only
chunkOutOfBoundsBelow(position) ==
    \/ position[1] < lastWorldChunks[1]
    \/ position[2] < lastWorldChunks[2]
    \/ position[3] < lastWorldChunks[3]

chunkOutOfBounds(position) ==
    \/ position[1] < lastWorldChunks[1]
    \/ position[2] < lastWorldChunks[2]
    \/ position[3] < lastWorldChunks[3]
    \/ position[1] > lastWorldChunks[4]
    \/ position[2] > lastWorldChunks[5]
    \/ position[3] > lastWorldChunks[6]

NoLast ==
    [op |-> "init", prevSentMeshes |-> {}, playerPosition |-> <<0, 0, 0>>,
     drawDistance |-> 0]

Message(type, chunkId, payload) == [type |-> type, chunkId |-> chunkId, payload |-> payload]

NoChunkId == <<0, 0, 0>>

(***************************************************************************)
(* MaxConcurrent (src/lib/max-concurrent is not part of the sources): at   *)
(* most MaxConcurrentLimit closures run; the others wait in order, and one *)
(* starts whenever a running one calls done.  mc is [running, waiting,     *)
(* xhrs].  A closure that starts sends its XMLHttpRequest.                 *)
(***************************************************************************)
requestClosure(chunkId, position) == [chunkId |-> chunkId, position |-> position]

MaxConcurrent(mc, closure) ==
    IF mc.running < MaxConcurrentLimit
    THEN [mc EXCEPT !.running = @ + 1,
                    !.xhrs = Append(@, [chunkId  |-> closure.chunkId,
                                        position |-> closure.position,
                                        orphaned |-> FALSE])]
    ELSE [mc EXCEPT !.waiting = Append(@, closure)]

done(mc) ==
    LET freed == [mc EXCEPT !.running = @ - 1]
    IN  IF freed.waiting = <<>> THEN freed
        ELSE MaxConcurrent([freed EXCEPT !.waiting = Tail(@)], Head(freed.waiting))

(***************************************************************************)
(* worker.regionChange                                                     *)
(***************************************************************************)
\* a regionChange that kept the old sent set and added to it
classifyMeshMerging(acc, chunkId) ==
    LET kept == [acc EXCEPT !.sentClientMeshes = @ \cup sentClientMeshes]
    IN  IF chunkId \in sentClientMeshes
        THEN [kept EXCEPT !.sentClientMeshes = @ \cup {chunkId}]
        ELSE [kept EXCEPT !.clientMissingMeshes = AddKey(@, chunkId)]

\* the classification of one chunk for mesh delivery (lines 244-248)
classifyMesh(acc, chunkId) ==
    IF chunkId \in sentClientMeshes
    THEN [acc EXCEPT !.sentClientMeshes = @ \cup {chunkId}]
    ELSE [acc EXCEPT !.clientMissingMeshes = AddKey(@, chunkId)]

\* a classification that takes the chunks at distance CloseDistance as near
classifyVoxelsInclusive(acc, chunkId, distanceAway) ==
    IF distanceAway <= CloseDistance
    THEN LET a == IF chunkId \in sentClientChunks
                  THEN [acc EXCEPT !.sentClientChunks = @ \cup {chunkId}]
                  ELSE [acc EXCEPT !.clientMissingChunks = AddKey(@, chunkId)]
         IN  [a EXCEPT !.nearbyChunks = @ \cup {chunkId}]
    ELSE acc

\* the classification of one chunk for voxel delivery (lines 234-242)
classifyVoxels(acc, chunkId, distanceAway) ==
    IF distanceAway < CloseDistance
    THEN LET a == IF chunkId \in sentClientChunks
                  THEN [acc EXCEPT !.sentClientChunks = @ \cup {chunkId}]
                  ELSE [acc EXCEPT !.clientMissingChunks = AddKey(@, chunkId)]
         IN  [a EXCEPT !.nearbyChunks = @ \cup {chunkId}]
    ELSE acc

\* the fetch of one chunk (lines 226-231)
requestChunk(acc, chunkId, chunkPosition) ==
    IF chunkId \notin DOMAIN chunkCache /\ chunkId \notin acc.requestedChunks
    THEN [acc EXCEPT !.mc = MaxConcurrent(@, requestClosure(chunkId, chunkPosition)),
                     !.requestedChunks = @ \cup {chunkId}]
    ELSE acc

\* the callback regionChange passes to nearbyChunkIDsEach
regionCallback(acc, chunkId, chunkPosition, distanceAway) ==
    IF chunkOutOfBounds(chunkPosition) THEN acc
    ELSE LET a1 == requestChunk(acc, chunkId, chunkPosition)
             a2 == classifyVoxels(a1, chunkId, distanceAway)
             a3 == classifyMesh(a2, chunkId)
         IN  [a3 EXCEPT !.chunkDistances = (chunkId :> distanceAway) @@ @]

RECURSIVE regionEach(_, _)
regionEach(acc, calls) ==
    IF calls = <<>> THEN acc
    ELSE CHOOSE r \in {regionEach(a, Tail(calls)) :
             a \in {regionCallback(acc, Head(calls).chunkId, Head(calls).chunkPosition,
                                   Head(calls).distanceAway)}} : TRUE

\* "Ignore chunks we no longer care about" (lines 262-270)
forgetRequests(requested, distances) == {c \in requested : c \in DOMAIN distances}

\* the worker's tables after regionChange(playerPosition, rotationQuat, drawDistance)
regionResult(playerPosition, drawDistance) ==
    regionEach([chunkDistances      |-> EmptyMap,
                sentClientChunks    |-> {},
                sentClientMeshes    |-> {},
                clientMissingChunks |-> <<>>,
                clientMissingMeshes |-> <<>>,
                nearbyChunks        |-> {},
                requestedChunks     |-> requestedChunks,
                mc                  |-> [running |-> running, waiting |-> waiting,
                                         xhrs |-> xhrs]],
               nearbyChunkIDsEach(chunkSize, playerPosition, drawDistance))

regionChange(playerPosition, drawDistance) ==
    \E r \in {regionResult(playerPosition, drawDistance)} :
        /\ nearbyChunks' = r.nearbyChunks
        /\ chunkDistances' = Normal(r.chunkDistances)
        /\ sentClientChunks' = r.sentClientChunks
        /\ sentClientMeshes' = r.sentClientMeshes
        /\ clientMissingChunks' = r.clientMissingChunks
        /\ clientMissingMeshes' = r.clientMissingMeshes
        /\ requestedChunks' = forgetRequests(r.requestedChunks, r.chunkDistances)
        /\ running' = r.mc.running
        /\ waiting' = r.mc.waiting
        /\ xhrs' = [i \in 1..Len(r.mc.xhrs) |->
                       [r.mc.xhrs[i] EXCEPT !.orphaned =
                           @ \/ r.mc.xhrs[i].chunkId \notin DOMAIN r.chunkDistances]]
        /\ posted' = <<Message("meshesToShow", NoChunkId, Normal(r.chunkDistances)),
                       Message("nearbyChunks", NoChunkId, r.nearbyChunks)>>
        /\ last' = [NoLast EXCEPT !.op = "regionChange",
                                  !.prevSentMeshes = sentClientMeshes,
                                  !.playerPosition = playerPosition,
                                  !.drawDistance = drawDistance]
        /\ UNCHANGED <<chunkCache, pendingEdit, out>>

(***************************************************************************)
(* req.onload of requestClosure: the answer to the i-th request in flight. *)
(* response.ok = FALSE is a null req.response; otherwise response.bytes is *)
(* the ArrayBuffer received.                                               *)
(***************************************************************************)
\* whether onload stores the answer (lines 193-202)
commits(chunkId, response) == response.ok /\ chunkId \in DOMAIN chunkDistances

onload(i, response) ==
    LET req    == xhrs[i]
        stored == commits(req.chunkId, response)
        mc     == done([running |-> running, waiting |-> waiting,
                        xhrs |-> RemoveAt(xhrs, i)])
    IN  /\ requestedChunks' = requestedChunks \ {req.chunkId}
        /\ chunkCache' =
              IF stored
              THEN Normal((req.chunkId :> [chunkID  |-> req.chunkId,
                                           position |-> req.position,
                                           voxels   |-> response.bytes]) @@ chunkCache)
              ELSE chunkCache
        /\ running' = mc.running
        /\ waiting' = mc.waiting
        /\ xhrs' = mc.xhrs
        /\ posted' = <<>>
        /\ last' = [NoLast EXCEPT !.op = "onload"]
        /\ UNCHANGED <<out, nearbyChunks, sentClientChunks, sentClientMeshes, chunkDistances,
                       clientMissingChunks, clientMissingMeshes, pendingEdit>>

(***************************************************************************)
(* worker.processChunks, the 20 Hz tick                                    *)
(***************************************************************************)
\* a voxel delivery that stopped where the mesh loop stops
sendVoxelsCapped(missing, sent) ==
    LET cached == SelectSeq(missing, LAMBDA c : c \in DOMAIN chunkCache)
        ready  == SubSeq(cached, 1, Min2(Len(cached), MeshBreakIndex + 1))
    IN  [msgs    |-> [i \in 1..Len(ready) |->
                         Message("chunkVoxels", ready[i], chunkCache[ready[i]])],
         missing |-> SelectSeq(missing, LAMBDA c : ~InSeq(c, ready)),
         sent    |-> sent \cup SeqToSet(ready)]

\* "Transfer voxel data to client" (lines 290-298): [msgs, missing, sent]
sendVoxels(missing, sent) ==
    LET ready == SelectSeq(missing, LAMBDA c : c \in DOMAIN chunkCache)
    IN  [msgs    |-> [i \in 1..Len(ready) |->
                         Message("chunkVoxels", ready[i], chunkCache[ready[i]])],
         missing |-> SelectSeq(missing, LAMBDA c : c \notin DOMAIN chunkCache),
         sent    |-> sent \cup SeqToSet(ready)]

\* whether the mesh loop stops after the delivery at index i (lines 350-353)
stopAfter(i) == i > MeshBreakIndex

\* the mesh loop (lines 301-354) from index i on: acc is [msgs, missing, sent]
RECURSIVE sendMeshes(_, _, _)
sendMeshes(chunkIds, i, acc) ==
    IF i >= Len(chunkIds) THEN acc
    ELSE LET chunkId == chunkIds[i + 1]
         IN  IF chunkId \notin DOMAIN chunkCache
             THEN sendMeshes(chunkIds, i + 1, acc)
             ELSE LET chunk == chunkCache[chunkId]
                      m     == mesh(acc.out, chunkCache, chunkSize, chunk.position,
                                    chunk.voxels)
                      sentIt == CHOOSE r \in {[msgs    |-> Append(acc.msgs,
                                                   Message("chunkMesh", chunkId, mm.out)),
                                               missing |-> DeleteKey(acc.missing, chunkId),
                                               sent    |-> acc.sent \cup {chunkId},
                                               out     |-> mm.module] :
                                                  mm \in {m}} : TRUE
                  IN  IF stopAfter(i) THEN sentIt
                      ELSE CHOOSE r \in {sendMeshes(chunkIds, i + 1, a) :
                                            a \in {sentIt}} : TRUE

processChunks ==
    \E v \in {sendVoxels(clientMissingChunks, sentClientChunks)} :
    \E m \in {sendMeshes(clientMissingMeshes, 0,
                        [msgs |-> <<>>, missing |-> clientMissingMeshes,
                         sent |-> sentClientMeshes, out |-> out])} :
        /\ clientMissingChunks' = v.missing
        /\ sentClientChunks' = v.sent
        /\ clientMissingMeshes' = m.missing
        /\ sentClientMeshes' = m.sent
        /\ posted' = v.msgs \o m.msgs
        /\ out' = m.out
        /\ last' = [NoLast EXCEPT !.op = "processChunks"]
        /\ pendingEdit' = [c \in ModelChunks |->
                              IF \E k \in 1..Len(m.msgs) : m.msgs[k].chunkId = c
                              THEN {} ELSE pendingEdit[c]]
        /\ UNCHANGED <<chunkCache, nearbyChunks, requestedChunks, chunkDistances, xhrs,
                       running, waiting>>

(***************************************************************************)
(* Voxel edits.  changes is the sequence of the entries [chunkID, details] *)
(* of the changes object, details = <<index, value, index, value, ...>>;   *)
(* touching is the sequence of the keys of the touching object.            *)
(***************************************************************************)
\* details[i] of a plain array
ArrayAt(details, i) == IF i >= 0 /\ i < Len(details) THEN details[i + 1] ELSE undefined

\* what a Uint8Array stores for val
ToUint8(val) == IF val = undefined THEN 0 ELSE val % 256

\* chunk.voxels[index] = val: a write outside a typed array is dropped
VoxelWrite(voxels, index, val) ==
    IF index >= 0 /\ index < Len(voxels)
    THEN [voxels EXCEPT ![index + 1] = ToUint8(val)]
    ELSE voxels

\* for (var i = 0; i < details.length; i += 2) chunk.voxels[details[i]] = details[i + 1]
RECURSIVE applyDetails(_, _, _)
applyDetails(voxels, details, i) ==
    IF i >= Len(details) THEN voxels
    ELSE applyDetails(VoxelWrite(voxels, ArrayAt(details, i), ArrayAt(details, i + 1)),
                      details, i + 2)

\* history: the pairs of details that were written into an array of this length,
\* the later write of an index replacing the earlier
RECURSIVE notePairs(_, _, _, _)
notePairs(pairs, length, details, i) ==
    IF i >= Len(details) THEN pairs
    ELSE notePairs(IF ArrayAt(details, i) >= 0 /\ ArrayAt(details, i) < length
                   THEN {p \in pairs : p[1] # ArrayAt(details, i)}
                            \cup {<<ArrayAt(details, i), ToUint8(ArrayAt(details, i + 1))>>}
                   ELSE pairs,
                   length, details, i + 2)

\* whether worker.chunkVoxelIndexValue applies the changes of chunkID (line 363)
localApplies(cache, chunkID) == chunkID \in DOMAIN cache

\* whether the websocket handler applies the changes of chunkID (lines 130-133)
serverApplies(cache, chunkID) == chunkID \in DOMAIN chunkDistances /\ chunkID \in DOMAIN cache

\* the first loop of worker.chunkVoxelIndexValue (lines 362-374):
\* acc is [cache, meshes, chunks, pending]
RECURSIVE localChanges(_, _)
localChanges(acc, changes) ==
    IF changes = <<>> THEN acc
    ELSE LET chunkID == Head(changes).chunkID
             details == Head(changes).details
         IN  localChanges(
                 IF localApplies(acc.cache, chunkID)
                 THEN [acc EXCEPT !.cache[chunkID].voxels = applyDetails(@, details, 0),
                                  !.meshes = AddKey(@, chunkID),
                                  !.pending[chunkID] =
                                      notePairs(@, Len(acc.cache[chunkID].voxels),
                                                details, 0)]
                 ELSE acc,
                 Tail(changes))

\* the second loop of worker.chunkVoxelIndexValue (lines 378-382)
RECURSIVE markTouching(_, _, _)
markTouching(meshes, cache, touching) ==
    IF touching = <<>> THEN meshes
    ELSE markTouching(IF Head(touching) \in DOMAIN cache
                      THEN AddKey(meshes, Head(touching)) ELSE meshes,
                      cache, Tail(touching))

\* the loop of the websocket handler (lines 129-149)
RECURSIVE serverChanges(_, _)
serverChanges(acc, changes) ==
    IF changes = <<>> THEN acc
    ELSE LET chunkID == Head(changes).chunkID
             details == Head(changes).details
         IN  serverChanges(
                 IF serverApplies(acc.cache, chunkID)
                 THEN [acc EXCEPT !.cache[chunkID].voxels = applyDetails(@, details, 0),
                                  !.meshes = AddKey(@, chunkID),
                                  !.chunks = IF chunkID \in nearbyChunks
                                             THEN AddKey(@, chunkID) ELSE @,
                                  !.pending[chunkID] =
                                      notePairs(@, Len(acc.cache[chunkID].voxels),
                                                details, 0)]
                 ELSE acc,
                 Tail(changes))

EditStart ==
    [cache |-> chunkCache, meshes |-> clientMissingMeshes,
     chunks |-> clientMissingChunks, pending |-> pendingEdit]

\* worker.chunkVoxelIndexValue(changes, touching): an edit of this client
chunkVoxelIndexValue(changes, touching) ==
    \E r \in {localChanges(EditStart, changes)} :
        /\ chunkCache' = r.cache
        /\ clientMissingMeshes' = markTouching(r.meshes, r.cache, touching)
        /\ pendingEdit' = r.pending
        /\ posted' = <<Message("server.chunkVoxelIndexValue", NoChunkId, changes)>>
        /\ last' = [NoLast EXCEPT !.op = "chunkVoxelIndexValue"]
        /\ UNCHANGED <<out, nearbyChunks, sentClientChunks, sentClientMeshes, requestedChunks,
                       chunkDistances, clientMissingChunks, xhrs, running, waiting>>

\* websocket.onmessage, case 'chunkVoxelIndexValue': an edit the server relays
onmessageChunkVoxelIndexValue(changes) ==
    \E r \in {serverChanges(EditStart, changes)} :
        /\ chunkCache' = r.cache
        /\ clientMissingMeshes' = r.meshes
        /\ clientMissingChunks' = r.chunks
        /\ pendingEdit' = r.pending
        /\ posted' = <<Message("chunkVoxelIndexValue", NoChunkId, changes)>>
        /\ last' = [NoLast EXCEPT !.op = "onmessage"]
        /\ UNCHANGED <<out, nearbyChunks, sentClientChunks, sentClientMeshes, requestedChunks,
                       chunkDistances, xhrs, running, waiting>>

(***************************************************************************)
(* The inputs of the model.                                                *)
(***************************************************************************)
\* the fetch service's answers: no response, a chunk of air, an empty body
Responses ==
    {[ok |-> FALSE, bytes |-> <<>>],
     [ok |-> TRUE, bytes |-> [i \in 1..chunkArrayLength |-> 0]],
     [ok |-> TRUE, bytes |-> <<>>]}

\* the edits: set the first voxel to an opaque material
EditDetails == {<<0, 150>>}

\* the chunks of the model whose lower corner is inside the world
InBounds(S) == {c \in S : ~chunkOutOfBounds(chunkPositionOf(chunkSize, c))}

\* the chunks that share a face with chunk c
Adjacent(c) == {d \in ModelChunks : Abs(d[1] - c[1]) + Abs(d[2] - c[2]) + Abs(d[3] - c[3]) = 1}

\* in Spec the player stands in the last chunk of the world and draws one chunk
\* far, or stands MaxDrawDistance chunks before the last but one and draws
\* MaxDrawDistance chunks far
LinePlayers ==
    {[position     |-> chunkPositionOf(chunkSize, <<worldRadius, 0, 0>>),
      drawDistance |-> 1],
     [position     |-> chunkPositionOf(chunkSize, <<worldRadius - 1 - MaxDrawDistance, 0, 0>>),
      drawDistance |-> MaxDrawDistance]}

\* in SpecCap the player stands in the middle of the patch
PatchPlayer == chunkPositionOf(chunkSize, <<1 - worldRadius, 0, 0>>)

PatchDrawDistance == MaxDrawDistance - 1

Init ==
    /\ chunkCache = EmptyMap
    /\ nearbyChunks = {}
    /\ sentClientChunks = {}
    /\ sentClientMeshes = {}
    /\ requestedChunks = {}
    /\ chunkDistances = EmptyMap
    /\ clientMissingChunks = <<>>
    /\ clientMissingMeshes = <<>>
    /\ xhrs = <<>>
    /\ running = 0
    /\ waiting = <<>>
    /\ posted = <<>>
    /\ last = NoLast
    /\ pendingEdit = [c \in ModelChunks |-> {}]
    /\ handled = [regionChange |-> 0, edit |-> 0]
    /\ out = <<>>
    /\ connections = 0
    /\ sockets = <<>>

RegionChange ==
    /\ handled.regionChange < MaxRegionChanges
    /\ handled' = [handled EXCEPT !.regionChange = @ + 1]
    /\ \E p \in LinePlayers : regionChange(p.position, p.drawDistance)
    /\ UNCHANGED serverVars

Onload ==
    /\ UNCHANGED handled
    /\ \E i \in 1..Len(xhrs) : \E r \in Responses : onload(i, r)
    /\ UNCHANGED serverVars

ProcessChunks == processChunks /\ UNCHANGED handled /\ UNCHANGED serverVars

LocalEdit ==
    /\ handled.edit < MaxEdits
    /\ handled' = [handled EXCEPT !.edit = @ + 1]
    /\ \E c \in InBounds(LineChunks) : \E d \in EditDetails :
        \E t \in {<<>>, SortChunks(Adjacent(c))} :
            chunkVoxelIndexValue(<<[chunkID |-> c, details |-> d]>>, t)
    /\ UNCHANGED serverVars

ServerEdit ==
    /\ handled.edit < MaxEdits
    /\ handled' = [handled EXCEPT !.edit = @ + 1]
    /\ \E c \in InBounds(LineChunks) : \E d \in EditDetails :
        onmessageChunkVoxelIndexValue(<<[chunkID |-> c, details |-> d]>>)
    /\ UNCHANGED serverVars

Next == RegionChange \/ Onload \/ ProcessChunks \/ LocalEdit \/ ServerEdit

Spec == Init /\ [][Next]_vars

(***************************************************************************)
(* A fetch that ends in a network error, a timeout or an abort fires the   *)
(* XMLHttpRequest's error, timeout or abort event, never its load event.   *)
(* requestClosure registers req.onload only (line 190; "// Handle error"   *)
(* at line 211 is followed by nothing), so no code of the worker runs: the *)
(* request is over, and requestedChunks and MaxConcurrent are as they were. *)
(***************************************************************************)
onerror(i) ==
    /\ xhrs' = RemoveAt(xhrs, i)
    /\ posted' = <<>>
    /\ last' = [NoLast EXCEPT !.op = "onerror"]
    /\ UNCHANGED <<out, chunkCache, nearbyChunks, sentClientChunks, sentClientMeshes,
                   requestedChunks, chunkDistances, clientMissingChunks,
                   clientMissingMeshes, running, waiting, pendingEdit>>

Onerror ==
    /\ UNCHANGED handled
    /\ \E i \in 1..Len(xhrs) : onerror(i)
    /\ UNCHANGED serverVars

NextNet == Next \/ Onerror

\* the worker on a network where fetches can fail
SpecNet == Init /\ [][NextNet]_vars

\* The patch: fifteen chunks, all closer than CloseDistance, fetched in the
\* worker's first regionChange; the answers are chunks of air and arrive nearly
\* in order.
CapRegionChange ==
    /\ chunkDistances = EmptyMap
    /\ regionChange(PatchPlayer, PatchDrawDistance)
    /\ UNCHANGED handled
    /\ UNCHANGED serverVars

CapOnload ==
    /\ UNCHANGED handled
    /\ \E i \in {1, Min2(Len(xhrs), ReorderWindow)} \cap (1..Len(xhrs)) :
        onload(i, [ok |-> TRUE, bytes |-> [k \in 1..chunkArrayLength |-> 0]])
    /\ UNCHANGED serverVars

NextCap == CapRegionChange \/ CapOnload \/ ProcessChunks

SpecCap == Init /\ [][NextCap]_vars

(***************************************************************************)
(* The mesher on its own: Meshing.mesh applied to the chunk at the origin   *)
(* of a cache that holds chosen voxel arrays.                              *)
(***************************************************************************)
\* the chunk size the mesher is configured with in SpecMesh
MeshChunkSize == 2
\* the calls of mesh in a run of SpecMesh
MaxMeshCalls == 2

MeshArrayLength == MeshChunkSize * MeshChunkSize * MeshChunkSize

\* the chunk that is meshed, and the six chunks that share a face with it
MeshedChunk == <<0, 0, 0>>

NeighbourChunks ==
    {<<1, 0, 0>>, <<-1, 0, 0>>, <<0, 1, 0>>, <<0, -1, 0>>, <<0, 0, 1>>, <<0, 0, -1>>}

\* materials of the texture table, and ids that are not in it
KnownMaterials == {50, 120, 150}

Materials == KnownMaterials \cup {77, 200}

Air == [k \in 1..MeshArrayLength |-> 0]

\* voxel arrays with one voxel of material a, at index i
OneVoxel(S) == {[k \in 1..MeshArrayLength |-> IF k = i + 1 THEN a ELSE 0] :
                   i \in 0..(MeshArrayLength - 1), a \in S}

\* voxel arrays with one or two voxels that are not empty
SparseGrids ==
    {[k \in 1..MeshArrayLength |-> IF k = j + 1 THEN b ELSE IF k = i + 1 THEN a ELSE 0] :
        i \in 0..(MeshArrayLength - 1), j \in 0..(MeshArrayLength - 1),
        a \in Materials, b \in Materials}

\* voxel arrays of one material throughout
UniformGrids == {[k \in 1..MeshArrayLength |-> a] : a \in KnownMaterials}

\* voxel arrays with MeshChunkSize voxels of one material, "stride" apart
RowGrids ==
    UNION {{[k \in 1..MeshArrayLength |->
                IF \E t \in 0..(MeshChunkSize - 1) : k = first + (t * stride) + 1
                THEN a ELSE 0] :
               first \in {i \in 0..(MeshArrayLength - 1) :
                             (i \div stride) % MeshChunkSize = 0},
               a \in KnownMaterials} :
           stride \in {1, MeshChunkSize, MeshChunkSize * MeshChunkSize}}

\* voxel arrays whose first MeshChunkSize elements are of one material and
\* whose next MeshChunkSize elements alternate between two others
MixedGrids ==
    {[k \in 1..MeshArrayLength |->
         IF k <= MeshChunkSize THEN m[1]
         ELSE IF k <= 2 * MeshChunkSize THEN (IF k % 2 = 0 THEN m[2] ELSE m[3])
         ELSE 0] :
        m \in {t \in KnownMaterials \X KnownMaterials \X KnownMaterials : t[2] # t[3]}}

meshChunk(chunkId, voxels) ==
    [chunkID  |-> chunkId,
     position |-> chunkPositionOf(MeshChunkSize, chunkId),
     voxels   |-> voxels]

\* the caches: the chunk alone, the chunk among six chunks of air, the chunk
\* with one voxel beside one neighbour with at most one voxel
MeshCaches ==
    {(MeshedChunk :> meshChunk(MeshedChunk, g)) :
        g \in SparseGrids \cup UniformGrids \cup RowGrids \cup MixedGrids \cup {<<>>}}
    \cup
    {[c \in NeighbourChunks \cup {MeshedChunk} |->
         meshChunk(c, IF c = MeshedChunk THEN g ELSE Air)] :
        g \in UniformGrids \cup RowGrids}
    \cup
    {Normal((MeshedChunk :> meshChunk(MeshedChunk, g)) @@ (n :> meshChunk(n, h))) :
        g \in OneVoxel(KnownMaterials), n \in NeighbourChunks,
        h \in OneVoxel({150}) \cup {Air}}

InitMesh ==
    /\ chunkCache \in MeshCaches
    /\ nearbyChunks = {}
    /\ sentClientChunks = {}
    /\ sentClientMeshes = {}
    /\ requestedChunks = {}
    /\ chunkDistances = EmptyMap
    /\ clientMissingChunks = <<>>
    /\ clientMissingMeshes = <<>>
    /\ xhrs = <<>>
    /\ running = 0
    /\ waiting = <<>>
    /\ posted = <<>>
    /\ last = NoLast
    /\ pendingEdit = [c \in ModelChunks |-> {}]
    /\ handled = [regionChange |-> 0, edit |-> 0]
    /\ out = <<>>
    /\ connections = 0
    /\ sockets = <<>>

\* one call mesher.mesh(chunk.position, chunk.voxels); posted keeps what the
\* calls returned
MeshCall ==
    /\ Len(posted) < MaxMeshCalls
    /\ \E m \in {mesh(out, chunkCache, MeshChunkSize, chunkCache[MeshedChunk].position,
                      chunkCache[MeshedChunk].voxels)} :
        /\ posted' = Append(posted, Message("mesh", MeshedChunk,
                                            [isNull |-> m.isNull, out |-> m.out]))
        /\ out' = m.module
    /\ last' = [NoLast EXCEPT !.op = "mesh"]
    /\ UNCHANGED <<chunkCache, nearbyChunks, sentClientChunks, sentClientMeshes,
                   requestedChunks, chunkDistances, clientMissingChunks,
                   clientMissingMeshes, xhrs, running, waiting, pendingEdit, handled>>
    /\ UNCHANGED serverVars

NextMesh == MeshCall

SpecMesh == InitMesh /\ [][NextMesh]_vars

(***************************************************************************)
(* The mesher on a chunk of a larger size: the buffers of addFace have     *)
(* poolCapacity elements whatever config.chunkSize is.                     *)
(***************************************************************************)
\* the chunk size the mesher is configured with in SpecPool
PoolChunkSize == 14

PoolArrayLength == PoolChunkSize * PoolChunkSize * PoolChunkSize

\* voxel arrays whose first "filled" elements hold material a in every second
\* cell (of x + y + z even) and air elsewhere
PoolGrid(a, filled) ==
    [k \in 1..PoolArrayLength |->
        IF /\ k <= filled
           /\ (((k - 1) % PoolChunkSize)
                 + (((k - 1) \div PoolChunkSize) % PoolChunkSize)
                 + ((k - 1) \div (PoolChunkSize * PoolChunkSize))) % 2 = 0
        THEN a ELSE 0]

PoolGrids ==
    {PoolGrid(a, layers * PoolChunkSize * PoolChunkSize) :
        a \in KnownMaterials, layers \in 0..PoolChunkSize}

PoolCaches ==
    {(MeshedChunk :> [chunkID  |-> MeshedChunk,
                      position |-> chunkPositionOf(PoolChunkSize, MeshedChunk),
                      voxels   |-> g]) : g \in PoolGrids}

InitPool ==
    /\ chunkCache \in PoolCaches
    /\ nearbyChunks = {}
    /\ sentClientChunks = {}
    /\ sentClientMeshes = {}
    /\ requestedChunks = {}
    /\ chunkDistances = EmptyMap
    /\ clientMissingChunks = <<>>
    /\ clientMissingMeshes = <<>>
    /\ xhrs = <<>>
    /\ running = 0
    /\ waiting = <<>>
    /\ posted = <<>>
    /\ last = NoLast
    /\ pendingEdit = [c \in ModelChunks |-> {}]
    /\ handled = [regionChange |-> 0, edit |-> 0]
    /\ out = <<>>
    /\ connections = 0
    /\ sockets = <<>>

\* one call mesher.mesh(chunk.position, chunk.voxels) with chunkSize
\* PoolChunkSize; posted keeps the offsets of the buffers of what it returned
PoolMeshCall ==
    /\ Len(posted) < MaxMeshCalls
    /\ \E m \in {mesh(out, chunkCache, PoolChunkSize, chunkCache[MeshedChunk].position,
                      chunkCache[MeshedChunk].voxels)} :
        /\ posted' = Append(posted, Message("mesh", MeshedChunk,
                [textureValue \in {m.out[k].textureValue : k \in 1..Len(m.out)} |->
                    [buffer \in {"position", "texcoord", "normal"} |->
                        bufferOffset(m.out, textureValue, buffer)]]))
        /\ out' = m.module
    /\ last' = [NoLast EXCEPT !.op = "mesh"]
    /\ UNCHANGED <<chunkCache, nearbyChunks, sentClientChunks, sentClientMeshes,
                   requestedChunks, chunkDistances, clientMissingChunks,
                   clientMissingMeshes, xhrs, running, waiting, pendingEdit, handled>>
    /\ UNCHANGED serverVars

NextPool == PoolMeshCall

SpecPool == InitPool /\ [][NextPool]_vars

(***************************************************************************)
(* The buffers of the mesher: Meshing.mesh applied to one chunk at one of  *)
(* several places of the world, alone in the cache; posted keeps the faces *)
(* and the object of buffers the call returned.                            *)
(***************************************************************************)
\* the chunks that are meshed in SpecFace
FaceChunks == {<<0, 0, 0>>, <<1, -1, 2>>, <<-2, 3, -1>>}

FaceGrids == RowGrids \cup UniformGrids \cup MixedGrids \cup OneVoxel(KnownMaterials) \cup {<<>>}

FaceCaches == {(c :> meshChunk(c, g)) : c \in FaceChunks, g \in FaceGrids}

\* the one chunk of the cache
FaceChunk == CHOOSE c \in DOMAIN chunkCache : TRUE

InitFace ==
    /\ chunkCache \in FaceCaches
    /\ nearbyChunks = {}
    /\ sentClientChunks = {}
    /\ sentClientMeshes = {}
    /\ requestedChunks = {}
    /\ chunkDistances = EmptyMap
    /\ clientMissingChunks = <<>>
    /\ clientMissingMeshes = <<>>
    /\ xhrs = <<>>
    /\ running = 0
    /\ waiting = <<>>
    /\ posted = <<>>
    /\ last = NoLast
    /\ pendingEdit = [c \in ModelChunks |-> {}]
    /\ handled = [regionChange |-> 0, edit |-> 0]
    /\ out = <<>>
    /\ connections = 0
    /\ sockets = <<>>

\* one call mesher.mesh(chunk.position, chunk.voxels); posted keeps the calls
\* of addFace and the object the call returned (no key when it returned null)
FaceMeshCall ==
    /\ Len(posted) < MaxMeshCalls
    /\ \E m \in {mesh(out, chunkCache, MeshChunkSize, chunkCache[FaceChunk].position,
                      chunkCache[FaceChunk].voxels)} :
        /\ posted' = Append(posted, Message("mesh", FaceChunk,
                                            [isNull |-> m.isNull, out |-> m.out,
                                             object |-> outObject(m.out)]))
        /\ out' = m.module
    /\ last' = [NoLast EXCEPT !.op = "mesh"]
    /\ UNCHANGED <<chunkCache, nearbyChunks, sentClientChunks, sentClientMeshes,
                   requestedChunks, chunkDistances, clientMissingChunks,
                   clientMissingMeshes, xhrs, running, waiting, pendingEdit, handled>>
    /\ UNCHANGED serverVars

NextFace == FaceMeshCall

SpecFace == InitFace /\ [][NextFace]_vars

(***************************************************************************)
(* The server's connection limit: server.js, "WEBSOCKET SETUP".  The       *)
(* handler of wseServer's connection event counts the connection, registers *)
(* the handler of its close event, and either closes it or hands it to     *)
(* server.connectClient.                                                   *)
(***************************************************************************)
\* config.maxPlayers (config is not part of the sources)
maxPlayers == 2
\* the connections that arrive in a run of SpecServer
MaxConnections == 5

connectionLimit == maxPlayers

\* a test that lets one connection more in
deniedAboveNext(count) == count > connectionLimit + 1

\* "Have we reached our player max?": connections > connectionLimit
denied(count) == count > connectionLimit

\* wseServer.on('connection', ...).  closeNow: connection.close() emits the
\* close event before it returns (the handler of line 92 is registered by
\* then); otherwise the event fires later.  WebSocketEmitter is not part of the
\* sources, so both happen.
connection(closeNow) ==
    LET counted == connections + 1
    IN  IF denied(counted)
        THEN /\ sockets' = Append(sockets, [connected |-> FALSE, closed |-> closeNow])
             /\ connections' = IF closeNow THEN counted - 1 ELSE counted
        ELSE /\ sockets' = Append(sockets, [connected |-> TRUE, closed |-> FALSE])
             /\ connections' = counted

\* connection.on('close', ...) of the i-th connection
onclose(i) ==
    /\ sockets' = [sockets EXCEPT ![i].closed = TRUE]
    /\ connections' = connections - 1

Connection ==
    /\ Len(sockets) < MaxConnections
    /\ \E closeNow \in BOOLEAN : connection(closeNow)
    /\ UNCHANGED workerVars

Close ==
    /\ \E i \in {j \in 1..Len(sockets) : ~sockets[j].closed} : onclose(i)
    /\ UNCHANGED workerVars

NextServer == Connection \/ Close

SpecServer == Init /\ [][NextServer]_vars

(***************************************************************************)
(* The properties.                                                         *)
(***************************************************************************)
\* the positions in posted of the messages of a type
PostedAt(type) == {k \in 1..Len(posted) : posted[k].type = type}

\* whether the last handler posted a chunkMesh for chunk c
MeshPosted(c) == \E k \in PostedAt("chunkMesh") : posted[k].chunkId = c

\* the in-bounds chunks a regionChange at this position enumerates
Enumerated(playerPosition, drawDistance) ==
    LET calls == nearbyChunkIDsEach(chunkSize, playerPosition, drawDistance)
    IN  {calls[i].chunkId : i \in {j \in 1..Len(calls) :
                                      ~chunkOutOfBounds(calls[j].chunkPosition)}}

\* C1: a chunk in clientMissingMeshes stays there until processChunks posts a
\* chunkMesh for it or a regionChange drops it from chunkDistances; a
\* regionChange that still tracks the chunk does not clear the flag an edit set.
C1_MissingMeshKept ==
    [][\A c \in ModelChunks :
          (InSeq(c, clientMissingMeshes) /\ ~InSeq(c, clientMissingMeshes'))
              => \/ last'.op = "processChunks" /\ MeshPosted(c)'
                 \/ last'.op = "regionChange" /\ c \notin DOMAIN chunkDistances']_vars

\* C2: after a regionChange that enumerates the in-bounds chunks N, with S the
\* sentClientMeshes before it, clientMissingMeshes = N \ S and
\* sentClientMeshes = N \cap S: the old sets are replaced, not merged.
C2_RegionChangeDiff ==
    last.op = "regionChange" =>
        LET N == Enumerated(last.playerPosition, last.drawDistance)
            S == last.prevSentMeshes
        IN  /\ SeqToSet(clientMissingMeshes) = N \ S
            /\ Len(clientMissingMeshes) = Cardinality(N \ S)
            /\ sentClientMeshes = N \cap S

\* a regionChange with S = {A, B} and N = {B, C}: A dropped, B kept, C new
C2_Witness ==
    /\ last.op = "regionChange"
    /\ \E A, B, C \in ModelChunks :
          /\ last.prevSentMeshes = {A, B} /\ A # B
          /\ Enumerated(last.playerPosition, last.drawDistance) = {B, C} /\ B # C
          /\ A # C
          /\ clientMissingMeshes = <<C>>
          /\ sentClientMeshes = {B}

\* C3: one processChunks tick posts at most 10 chunkMesh messages.
C3_AtMostTenMeshes ==
    last.op = "processChunks" => Cardinality(PostedAt("chunkMesh")) <= MeshesPerTick

\* C4: a processChunks tick posts a chunkVoxels message for exactly the chunks
\* of clientMissingChunks that are cached, moves exactly those to
\* sentClientChunks, leaves the uncached ones, and posts them before any
\* chunkMesh, however many meshes are pending.
C4_VoxelsDelivered ==
    [][last'.op = "processChunks" =>
          LET ready == {c \in SeqToSet(clientMissingChunks) : c \in DOMAIN chunkCache}
          IN  /\ {posted'[k].chunkId : k \in PostedAt("chunkVoxels")'} = ready
              /\ Cardinality(PostedAt("chunkVoxels")') = Cardinality(ready)
              /\ \A k \in PostedAt("chunkVoxels")' :
                    posted'[k].payload = chunkCache[posted'[k].chunkId]
              /\ SeqToSet(clientMissingChunks') = SeqToSet(clientMissingChunks) \ ready
              /\ sentClientChunks' = sentClientChunks \cup ready
              /\ \A k \in PostedAt("chunkVoxels")', j \in PostedAt("chunkMesh")' : k < j]_vars

\* a tick that posted more chunkVoxels than chunkMesh messages, deferred the
\* mesh of a cached chunk and left an uncached chunk in clientMissingChunks
C4_Witness ==
    /\ last.op = "processChunks"
    /\ Cardinality(PostedAt("chunkVoxels")) > Cardinality(PostedAt("chunkMesh"))
    /\ Cardinality(PostedAt("chunkMesh")) > 0
    /\ \E c \in SeqToSet(clientMissingMeshes) : c \in DOMAIN chunkCache
    /\ clientMissingChunks # <<>>
    /\ \A c \in SeqToSet(clientMissingChunks) : c \notin DOMAIN chunkCache
    /\ \A k \in PostedAt("chunkVoxels") : posted[k].chunkId \in sentClientChunks

\* C5: the answer to a request whose chunk left chunkDistances while the
\* request was in flight is never stored in the chunk cache.
C5_OrphanDiscarded ==
    [][\A i \in 1..Len(xhrs) : \A r \in Responses :
          (xhrs[i].orphaned /\ onload(i, r)) => chunkCache' = chunkCache]_vars

\* C6: after a regionChange every cached chunk is tracked and inside the world.
C6_UntrackedEvicted ==
    last.op = "regionChange" =>
        \A c \in DOMAIN chunkCache :
            /\ c \in DOMAIN chunkDistances
            /\ ~chunkOutOfBounds(chunkCache[c].position)

\* C7: every cached voxel array, and every voxel array of a chunkVoxels
\* message, has chunkSize^3 elements.
C7_VoxelLength ==
    /\ \A c \in DOMAIN chunkCache : Len(chunkCache[c].voxels) = chunkArrayLength
    /\ \A k \in PostedAt("chunkVoxels") : Len(posted[k].payload.voxels) = chunkArrayLength

\* the tables are the same for chunk c before and after the step
C8_Untouched(c) ==
    /\ (c \in DOMAIN chunkCache') = (c \in DOMAIN chunkCache)
    /\ c \in DOMAIN chunkCache => chunkCache'[c] = chunkCache[c]
    /\ InSeq(c, clientMissingMeshes') = InSeq(c, clientMissingMeshes)
    /\ InSeq(c, clientMissingChunks') = InSeq(c, clientMissingChunks)

\* C8: an edit of a chunk that is not tracked or not cached changes nothing
\* for that chunk, on the worker path and on the websocket path.
C8_UntrackedEditIgnored ==
    [][\A c \in ModelChunks : \A d \in EditDetails :
          LET changes == <<[chunkID |-> c, details |-> d]>>
          IN  (/\ c \notin DOMAIN chunkDistances \/ c \notin DOMAIN chunkCache
               /\ \/ onmessageChunkVoxelIndexValue(changes)
                  \/ \E t \in {<<>>, SortChunks(Adjacent(c))} :
                         chunkVoxelIndexValue(changes, t))
              => C8_Untouched(c)]_vars

\* the voxels with the pairs written
RECURSIVE C9_WithPairs(_, _)
C9_WithPairs(voxels, pairs) ==
    IF pairs = {} THEN voxels
    ELSE LET p == CHOOSE q \in pairs : TRUE
         IN  C9_WithPairs(VoxelWrite(voxels, p[1], p[2]), pairs \ {p})

\* C9: the chunkMesh a tick posts for a chunk is computed from voxels that hold
\* every index/value pair edits wrote for the chunk since its last chunkMesh.
C9_MeshSeesEdits ==
    [][last'.op = "processChunks" =>
          \A k \in PostedAt("chunkMesh")' :
              LET c == posted'[k].chunkId
              IN  /\ \A p \in pendingEdit[c] : VoxelAt(chunkCache[c].voxels, p[1]) = p[2]
                  /\ posted'[k].payload =
                        mesh(out, chunkCache, chunkSize, chunkCache[c].position,
                             C9_WithPairs(chunkCache[c].voxels, pendingEdit[c])).out]_vars

\* the tracked, cached chunks among S
C10_Held(S) == S \cap DOMAIN chunkCache \cap DOMAIN chunkDistances

\* C10: an edit applied to the cache, on either path, puts the tracked, cached
\* chunks touching the edited chunk in clientMissingMeshes.
C10_TouchingMarked ==
    [][\A c \in ModelChunks : \A d \in EditDetails :
          LET changes == <<[chunkID |-> c, details |-> d]>>
          IN  /\ (onmessageChunkVoxelIndexValue(changes) /\ serverApplies(chunkCache, c))
                  => \A x \in C10_Held(Adjacent(c)) :
                         InSeq(x, clientMissingMeshes')
              /\ \A t \in {<<>>, SortChunks(Adjacent(c))} :
                    (chunkVoxelIndexValue(changes, t) /\ localApplies(chunkCache, c))
                        => \A x \in C10_Held(SeqToSet(t)) :
                               InSeq(x, clientMissingMeshes')]_vars

\* C11: mesh returns null for a voxel array of length 0, and a tick posts no
\* chunkMesh for a chunk whose mesh is null and leaves it in clientMissingMeshes
\* and out of sentClientMeshes.
C11_NullMeshSkipped ==
    [][last'.op = "processChunks" =>
          \A c \in SeqToSet(clientMissingMeshes) \cap DOMAIN chunkCache :
              LET m == mesh(out, chunkCache, chunkSize, chunkCache[c].position,
                            chunkCache[c].voxels)
              IN  /\ m.isNull = (Len(chunkCache[c].voxels) = 0)
                  /\ m.isNull =>
                        /\ ~MeshPosted(c)'
                        /\ InSeq(c, clientMissingMeshes')
                        /\ (c \in sentClientMeshes') = (c \in sentClientMeshes)]_vars

\* C19: no two requests in flight are for the same chunk.
C19_OneFetchPerChunk ==
    \A i, j \in 1..Len(xhrs) : xhrs[i].chunkId = xhrs[j].chunkId => i = j

\* C20: pending chunks that are not cached do not consume the per-tick cap:
\* a tick delivers a chunkMesh for at least min(10, number of cached chunks of
\* clientMissingMeshes) chunks.
C20_CachedPending ==
    SeqToSet(clientMissingMeshes) \cap DOMAIN chunkCache

C20_UncachedTakeNoCap ==
    [][last'.op = "processChunks" =>
          Cardinality({c \in C20_CachedPending : MeshPosted(c)'})
              >= Min2(MeshesPerTick, Cardinality(C20_CachedPending))]_vars

\* the voxels of the meshed chunk of SpecMesh
MeshedVoxels == chunkCache[MeshedChunk].voxels

\* the faces of the objects the calls of SpecMesh returned
Meshed == {posted[k].payload.out : k \in {i \in 1..Len(posted) : ~posted[i].payload.isNull}}

\* a face of direction face of the output covers the voxel at (x, y, z)
FaceShown(faces, face, x, y, z) ==
    \E k \in 1..Len(faces) :
        /\ faces[k].face = face
        /\ faces[k].start[1] <= x /\ x <= faces[k].end[1]
        /\ faces[k].start[2] <= y /\ y <= faces[k].end[2]
        /\ faces[k].start[3] <= z /\ z <= faces[k].end[3]

\* the materials whose six texture ids are on the material's side of 100
C12_ClassKept ==
    {a \in KnownMaterials :
        \A f \in 1..6 : (voxelsToTextures[a].textures[f] < TransparentFrom) = (a < TransparentFrom)}

\* the index of the voxel at (x, y, y): the sweep and the coordinate mapper
\* agree on it
C12_Index(x, y) == coordinatesToVoxelIndex(MeshChunkSize, x, y, y)

FaceNames == {"top", "bottom", "front", "back", "left", "right"}

\* the indices of the voxels of the meshed chunk that are not empty
MeshedFilled == {i \in 0..(Len(MeshedVoxels) - 1) : MeshedVoxels[i + 1] # 0}

\* C13: a chunk with one voxel that is not empty, meshed with no other chunk in
\* the cache, gives exactly 6 faces, one per direction and all on one cell; with
\* material 150 at local (0, 0, 0) the output has exactly one texture key, whose
\* position buffer holds 6 x 6 vertices = 36 triples.
C13_SingleVoxelSixFaces ==
    \A faces \in Meshed :
        (Cardinality(MeshedFilled) = 1 /\ DOMAIN chunkCache = {MeshedChunk}) =>
            /\ Len(faces) = 6
            /\ {faces[k].face : k \in 1..Len(faces)} = FaceNames
            /\ \A k \in 1..Len(faces) :
                   faces[k].start = faces[1].start /\ faces[k].end = faces[1].start
            /\ MeshedVoxels[1] = 150 =>
                   /\ faces[1].start = <<0, 0, 0>>
                   /\ Cardinality(DOMAIN outObject(faces)) = 1
                   /\ \A t \in DOMAIN outObject(faces) :
                          outObject(faces)[t].position.offset = 36 * 3

\* the chunk with only material 150 at local (0, 0, 0) has been meshed alone
C13_Witness ==
    /\ Meshed # {}
    /\ MeshedFilled = {0}
    /\ MeshedVoxels[1] = 150
    /\ Len(MeshedVoxels) = MeshArrayLength
    /\ DOMAIN chunkCache = {MeshedChunk}

\* the cell (x, y, z) of the chunk has its face of direction face on the
\* outside of the chunk
OnSide(face, x, y, z) ==
    CASE face = "front"  -> z = 0
      [] face = "back"   -> z = MeshChunkSize - 1
      [] face = "left"   -> x = 0
      [] face = "right"  -> x = MeshChunkSize - 1
      [] face = "top"    -> y = MeshChunkSize - 1
      [] face = "bottom" -> y = 0

\* the faces of direction face of the output that cover the voxel at (x, y, z)
FacesOn(faces, face, x, y, z) ==
    {k \in 1..Len(faces) :
        /\ faces[k].face = face
        /\ faces[k].start[1] <= x /\ x <= faces[k].end[1]
        /\ faces[k].start[2] <= y /\ y <= faces[k].end[2]
        /\ faces[k].start[3] <= z /\ z <= faces[k].end[3]}

\* C14: for a chunk whose voxels are all 100 or above and whose neighbour chunks
\* hold only air or are not in the cache, the output is the boundary shell: each
\* voxel face on an outer side of the chunk is covered by exactly one emitted
\* face, and no face is emitted between two voxels of the chunk.
C14_SolidChunkShell ==
    \A faces \in Meshed :
        (/\ \A i \in 1..Len(MeshedVoxels) : MeshedVoxels[i] >= TransparentFrom
         /\ \A n \in DOMAIN chunkCache \ {MeshedChunk} : chunkCache[n].voxels = Air) =>
            \A face \in FaceNames :
                \A x \in 0..(MeshChunkSize - 1), y \in 0..(MeshChunkSize - 1),
                   z \in 0..(MeshChunkSize - 1) :
                    Cardinality(FacesOn(faces, face, x, y, z))
                        = IF OnSide(face, x, y, z) THEN 1 ELSE 0

\* the k-th cell of the row of a sweep: the rows of front, back, top and bottom
\* run along x at height y and depth fixed, those of left and right along z at
\* height y and x = fixed
RowCell(face, y, fixed, k) ==
    IF face \in {"left", "right"} THEN <<fixed, y, k>> ELSE <<k, y, fixed>>

\* the material the sweep meshes the voxel at cell as
SweptMaterial(cell) ==
    LET read == VoxelAt(MeshedVoxels, sweepIndex(MeshChunkSize, cell[1], cell[2], cell[3]))
    IN  IF read \in DOMAIN voxelsToTextures THEN read ELSE DefaultMaterial

\* the row holds MeshChunkSize voxels of one material and the face of direction
\* face is unblocked for each of them
C15_OpenRow(face, y, fixed) ==
    \A k \in 0..(MeshChunkSize - 1) :
        LET cell == RowCell(face, y, fixed, k)
            read == VoxelAt(MeshedVoxels,
                            sweepIndex(MeshChunkSize, cell[1], cell[2], cell[3]))
        IN  /\ read > 0
            /\ read = VoxelAt(MeshedVoxels,
                              sweepIndex(MeshChunkSize, RowCell(face, y, fixed, 0)[1], y,
                                         RowCell(face, y, fixed, 0)[3]))
            /\ ~isFaceBlocked(chunkCache, chunkCache[MeshedChunk].position, MeshedVoxels,
                              MeshChunkSize, face, cell[1], cell[2], cell[3],
                              voxelsToTextures[SweptMaterial(cell)]
                                  .textures[faceIndex(face) + 1])

\* the faces of direction face the output has in the row
C15_InRow(faces, face, y, fixed) ==
    {k \in 1..Len(faces) :
        /\ faces[k].face = face
        /\ faces[k].start[2] = y
        /\ faces[k].start[IF face \in {"left", "right"} THEN 1 ELSE 3] = fixed}

\* C15: a row of chunkSize voxels of one material along the sweep axis, with the
\* face of a direction unblocked for all of them, gives exactly one face of that
\* direction in the row, from the first voxel of the row to the last.
C15_RowMergedToOne ==
    \A faces \in Meshed :
        \A face \in FaceNames :
            \A y \in 0..(MeshChunkSize - 1), fixed \in 0..(MeshChunkSize - 1) :
                C15_OpenRow(face, y, fixed) =>
                    /\ Cardinality(C15_InRow(faces, face, y, fixed)) = 1
                    /\ \A k \in C15_InRow(faces, face, y, fixed) :
                           /\ faces[k].start = RowCell(face, y, fixed, 0)
                           /\ faces[k].end = RowCell(face, y, fixed, MeshChunkSize - 1)

\* a chunk has been meshed that has a row along x whose top faces are all
\* unblocked and a row along z whose left faces are all unblocked
C15_Witness ==
    /\ Meshed # {}
    /\ C15_OpenRow("top", MeshChunkSize - 1, 0)
    /\ C15_OpenRow("left", 0, 0)

\* the world coordinate of the cell the face of direction face of the voxel at
\* (x, y, z) of the meshed chunk looks at
C16_Opposite(face, x, y, z) ==
    LET o == opposingCell(face, x, y, z)
        p == chunkCache[MeshedChunk].position
    IN  <<o[1] + p[1], o[2] + p[2], o[3] + p[3]>>

\* C16: the face of a voxel that points out of the chunk is emitted when the
\* chunk that holds the adjacent world coordinate is not in the cache; when it is
\* in the cache the face is emitted exactly when the occlusion rule, applied to
\* the voxel's material and to the voxel of that chunk at the adjacent world
\* coordinate, does not hide it.  Negative world coordinates included.
C16_BoundaryFace ==
    \A faces \in Meshed :
        \A face \in FaceNames :
            \A x \in 0..(MeshChunkSize - 1), y \in 0..(MeshChunkSize - 1),
               z \in 0..(MeshChunkSize - 1) :
                LET w == C16_Opposite(face, x, y, z)
                    n == coordinatesToChunkID(MeshChunkSize, w[1], w[2], w[3])
                    i == coordinatesToVoxelIndex(MeshChunkSize, w[1], w[2], w[3])
                IN  (/\ VoxelAt(MeshedVoxels, sweepIndex(MeshChunkSize, x, y, z)) > 0
                     /\ OnSide(face, x, y, z)) =>
                        FaceShown(faces, face, x, y, z)
                            = (n \in DOMAIN chunkCache =>
                                  ~shouldSkipFace(SweptMaterial(<<x, y, z>>),
                                                  VoxelAt(chunkCache[n].voxels, i)))

\* C17: each call of mesh on a chunk returns the same output as the call before
\* it on the same chunk and cache: the same texture keys and per key the same
\* offsets and the same position, texcoord and normal data; what an earlier call
\* returned is not part of what a later call builds.
C17_MeshTwiceSame ==
    \A i \in 1..(Len(posted) - 1) :
        /\ posted[i].payload.isNull = posted[i + 1].payload.isNull
        /\ outObject(posted[i].payload.out) = outObject(posted[i + 1].payload.out)
        /\ ~posted[i + 1].payload.isNull => out = posted[i + 1].payload.out

\* mesh was called twice on a chunk that gives faces
C17_Witness ==
    /\ Len(posted) = 2
    /\ \A k \in 1..2 : ~posted[k].payload.isNull /\ Len(posted[k].payload.out) > 0

\* the cells of the chunk
MeshCells ==
    {<<x, y, z>> : x \in 0..(MeshChunkSize - 1), y \in 0..(MeshChunkSize - 1),
                   z \in 0..(MeshChunkSize - 1)}

\* what the sweep reads at a cell
SweptValue(cell) ==
    VoxelAt(MeshedVoxels, sweepIndex(MeshChunkSize, cell[1], cell[2], cell[3]))

\* C18: mesh returns an output for every voxel array that is not empty, unknown
\* material ids or not; in it every voxel that is not air, one of unknown
\* material taken as material 3, has each of its faces that is not blocked
\* covered by exactly one emitted face, of the texture of its material for that
\* direction, and has no face where it is blocked.
C18_UnknownAsDefault ==
    /\ \A k \in 1..Len(posted) : posted[k].payload.isNull = (MeshedVoxels = <<>>)
    /\ \A faces \in Meshed :
           \A cell \in MeshCells, face \in FaceNames :
               LET material == IF SweptValue(cell) \in DOMAIN voxelsToTextures
                               THEN SweptValue(cell) ELSE 3
                   texture  == voxelsToTextures[material].textures[faceIndex(face) + 1]
                   on       == FacesOn(faces, face, cell[1], cell[2], cell[3])
               IN  SweptValue(cell) > 0 =>
                      IF isFaceBlocked(chunkCache, chunkCache[MeshedChunk].position,
                                       MeshedVoxels, MeshChunkSize, face,
                                       cell[1], cell[2], cell[3], texture)
                      THEN on = {}
                      ELSE /\ Cardinality(on) = 1
                           /\ \A q \in on : faces[q].textureValue = texture

\* a chunk has been meshed in which the sweep comes to a voxel of unknown
\* material before one of a known material
C18_Witness ==
    /\ Meshed # {}
    /\ \E i, j \in MeshedFilled :
          /\ i < j
          /\ MeshedVoxels[i + 1] \notin DOMAIN voxelsToTextures
          /\ MeshedVoxels[j + 1] \in DOMAIN voxelsToTextures

\* C21: a step that stores or changes the cached voxels of a chunk leaves the
\* chunk in clientMissingMeshes, and a chunk that stays in sentClientMeshes
\* leaves clientMissingMeshes only in a tick that posts its chunkMesh; so a
\* chunk in sentClientMeshes and not in clientMissingMeshes was last meshed from
\* the voxels now in the cache.
C21_ChangeLeavesPending ==
    [][\A c \in DOMAIN chunkCache' :
          /\ (c \notin DOMAIN chunkCache \/ chunkCache'[c].voxels # chunkCache[c].voxels)
                => InSeq(c, clientMissingMeshes')
          /\ (/\ InSeq(c, clientMissingMeshes)
              /\ ~InSeq(c, clientMissingMeshes')
              /\ c \in sentClientMeshes')
                => (last'.op = "processChunks" /\ MeshPosted(c)')]_vars

\* the fetches of chunk c that are in flight or wait for a slot
Fetches(c, inFlight, queued) ==
    Cardinality({i \in 1..Len(inFlight) : inFlight[i].chunkId = c})
        + Cardinality({i \in 1..Len(queued) : queued[i].chunkId = c})

\* the requests in flight one of which ends in this step; done may start a
\* waiting closure, whose request comes last
Ended ==
    {i \in 1..Len(xhrs) :
        \/ xhrs' = RemoveAt(xhrs, i)
        \/ /\ Len(xhrs') = Len(xhrs)
           /\ SubSeq(xhrs', 1, Len(xhrs) - 1) = RemoveAt(xhrs, i)}

\* C22: when a fetch ends and nothing is stored (no response, a failure, or a
\* chunk no longer tracked) the chunk's requestedChunks mark is cleared and
\* exactly one slot of MaxConcurrent is released; and a regionChange that
\* enumerates a chunk neither cached nor marked issues one new fetch of it.
C22_FailedFetchReleased ==
    [][/\ (last'.op \in {"onload", "onerror"} /\ chunkCache' = chunkCache)
            => /\ \E i \in Ended : xhrs[i].chunkId \notin requestedChunks'
               /\ running' + Len(waiting') = (running + Len(waiting)) - 1
       /\ last'.op = "regionChange"
            => \A c \in Enumerated(last'.playerPosition, last'.drawDistance) :
                  (c \notin DOMAIN chunkCache /\ c \notin requestedChunks)
                     => /\ c \in requestedChunks'
                        /\ Fetches(c, xhrs', waiting') = Fetches(c, xhrs, waiting) + 1]_vars

\* C23: clientMissingMeshes and sentClientMeshes hold only keys of
\* chunkDistances, clientMissingChunks and sentClientChunks only chunks of
\* nearbyChunks, and every chunkVoxels and chunkMesh message a tick posts is for
\* a chunk of chunkDistances.
C23_ClassifiedAreTracked ==
    /\ SeqToSet(clientMissingMeshes) \cup sentClientMeshes \subseteq DOMAIN chunkDistances
    /\ SeqToSet(clientMissingChunks) \cup sentClientChunks \subseteq nearbyChunks
    /\ last.op = "processChunks"
          => \A k \in PostedAt("chunkVoxels") \cup PostedAt("chunkMesh") :
                posted[k].chunkId \in DOMAIN chunkDistances

\* the in-bounds chunks a regionChange at this position enumerates at a
\* distance below CloseDistance (near) or not (far)
EnumeratedAt(playerPosition, drawDistance, near) ==
    LET calls == nearbyChunkIDsEach(chunkSize, playerPosition, drawDistance)
    IN  {calls[i].chunkId : i \in {j \in 1..Len(calls) :
            /\ ~chunkOutOfBounds(calls[j].chunkPosition)
            /\ (calls[j].distanceAway < CloseDistance) = near}}

\* C24: after a regionChange nearbyChunks is the set of the enumerated
\* in-bounds chunks closer than 3; those that were in sentClientChunks before
\* are in sentClientChunks, the others in clientMissingChunks; the enumerated
\* in-bounds chunks at distance 3 or more are keys of chunkDistances, are
\* classified for mesh delivery and are in neither voxel set.
C24_VoxelClassification ==
    [][last'.op = "regionChange" =>
          \E near \in {EnumeratedAt(last'.playerPosition, last'.drawDistance, TRUE)} :
          \E far \in {EnumeratedAt(last'.playerPosition, last'.drawDistance, FALSE)} :
              /\ nearbyChunks' = near
              /\ sentClientChunks' = near \cap sentClientChunks
              /\ SeqToSet(clientMissingChunks') = near \ sentClientChunks
              /\ far \subseteq DOMAIN chunkDistances'
              /\ far \subseteq sentClientMeshes' \cup SeqToSet(clientMissingMeshes')
              /\ far \cap (sentClientChunks' \cup SeqToSet(clientMissingChunks')) = {}]_vars

\* a regionChange has found a chunk whose voxels were sent before and a chunk
\* at distance 3 or more
C24_Witness ==
    /\ last.op = "regionChange"
    /\ sentClientChunks # {}
    /\ EnumeratedAt(last.playerPosition, last.drawDistance, FALSE) # {}

\* C25: whether the face of a voxel is emitted is decided by the occlusion rule
\* on the material of the voxel and the material of the adjacent cell: the face
\* is in the output exactly when isFaceBlocked, given the material of the voxel
\* as the current value, does not block it, whatever texture id the table gives
\* that face of the material.
C25_DecidedOnMaterial ==
    \A faces \in Meshed :
        \A cell \in MeshCells, face \in FaceNames :
            SweptValue(cell) > 0 =>
                FaceShown(faces, face, cell[1], cell[2], cell[3])
                    = ~isFaceBlocked(chunkCache, chunkCache[MeshedChunk].position,
                                     MeshedVoxels, MeshChunkSize, face,
                                     cell[1], cell[2], cell[3], SweptMaterial(cell))

\* C26: the sweep, the occlusion lookup and the fetched array use one index
\* order: what the sweep reads for the cell (x, y, z) is the voxel the
\* coordinate mapper's voxelIndex(x, y, z) names, so every emitted face lies on
\* a cell whose voxel, by the mapper's index, is not empty.
C26_OneIndexOrder ==
    \A faces \in Meshed :
        \A cell \in MeshCells :
            LET voxelIndex == coordinatesToVoxelIndex(MeshChunkSize, cell[1], cell[2], cell[3])
            IN  /\ sweepIndex(MeshChunkSize, cell[1], cell[2], cell[3]) = voxelIndex
                /\ SweptValue(cell) = VoxelAt(MeshedVoxels, voxelIndex)
                /\ (\E face \in FaceNames : FaceShown(faces, face, cell[1], cell[2], cell[3]))
                      => VoxelAt(MeshedVoxels, voxelIndex) > 0

\* the axis of the sweep that emits the faces of direction face: 3 (z) for
\* left and right, 1 (x) for the others
C27_Axis(face) == IF face \in {"left", "right"} THEN 3 ELSE 1

\* the cell of the row of the emitted face q at place i of the sweep axis
C27_Cell(q, i) == [q.start EXCEPT ![C27_Axis(q.face)] = i]

\* the sweep takes the voxel at cell into a run of the texture of q: it is not
\* empty, its face has that texture and is not blocked
C27_InRun(q, cell) ==
    /\ SweptValue(cell) > 0
    /\ voxelsToTextures[SweptMaterial(cell)].textures[faceIndex(q.face) + 1] = q.textureValue
    /\ ~isFaceBlocked(chunkCache, chunkCache[MeshedChunk].position, MeshedVoxels,
                      MeshChunkSize, q.face, cell[1], cell[2], cell[3], q.textureValue)

\* C27: every emitted face covers a run of one row of its sweep: start and end
\* differ only along the sweep axis, start is not after end, and every voxel
\* from start to end is not empty, has the run's texture on that face and has
\* the face unblocked; the run stops only at an empty voxel, a blocked face,
\* another texture or the end of the row: the voxels next to it in the row are
\* not of the run.
C27_QuadIsRowRun ==
    \A faces \in Meshed :
        \A k \in 1..Len(faces) :
            LET q     == faces[k]
                axis  == C27_Axis(q.face)
                first == q.start[axis]
                final == q.end[axis]
            IN  /\ \A d \in {1, 2, 3} \ {axis} : q.start[d] = q.end[d]
                /\ 0 <= first /\ first <= final /\ final <= MeshChunkSize - 1
                /\ \A i \in first..final : C27_InRun(q, C27_Cell(q, i))
                /\ first > 0 => ~C27_InRun(q, C27_Cell(q, first - 1))
                /\ final < MeshChunkSize - 1 => ~C27_InRun(q, C27_Cell(q, final + 1))

\* a chunk has been meshed whose output has a face over more than one voxel
\* and a face that ends before a voxel of another texture in its row
C27_Witness ==
    \E faces \in Meshed :
        /\ \E k \in 1..Len(faces) : faces[k].start # faces[k].end
        /\ \E k \in 1..Len(faces) :
              LET q     == faces[k]
                  final == q.end[C27_Axis(q.face)]
              IN  /\ final < MeshChunkSize - 1
                  /\ SweptValue(C27_Cell(q, final + 1)) > 0
                  /\ ~isFaceBlocked(chunkCache, chunkCache[MeshedChunk].position,
                                    MeshedVoxels, MeshChunkSize, q.face,
                                    C27_Cell(q, final + 1)[1], C27_Cell(q, final + 1)[2],
                                    C27_Cell(q, final + 1)[3],
                                    voxelsToTextures[SweptMaterial(C27_Cell(q, final + 1))]
                                        .textures[faceIndex(q.face) + 1])

\* the chunks of the model whose lower corner is outside the world box: below
\* -chunkSize * worldRadius or above chunkSize * worldRadius on some axis
C28_Outside ==
    {c \in ModelChunks :
        \E d \in 1..3 :
            \/ chunkPositionOf(chunkSize, c)[d] < -(chunkSize * worldRadius)
            \/ chunkPositionOf(chunkSize, c)[d] > chunkSize * worldRadius}

\* C28: a chunk whose lower corner is outside the world box is never fetched
\* (no request in flight or waiting, no requestedChunks mark, nothing cached)
\* and is in none of chunkDistances, nearbyChunks, clientMissingChunks,
\* clientMissingMeshes, sentClientChunks and sentClientMeshes.
C28_OutsideNeverTracked ==
    \A c \in C28_Outside :
        /\ Fetches(c, xhrs, waiting) = 0
        /\ c \notin requestedChunks
        /\ c \notin DOMAIN chunkCache
        /\ c \notin DOMAIN chunkDistances
        /\ c \notin nearbyChunks \cup sentClientChunks \cup sentClientMeshes
        /\ ~InSeq(c, clientMissingChunks)
        /\ ~InSeq(c, clientMissingMeshes)

\* a regionChange has enumerated a chunk outside the world box, and a chunk
\* inside it that it tracks
C28_Witness ==
    /\ last.op = "regionChange"
    /\ \E i \in DOMAIN nearbyChunkIDsEach(chunkSize, last.playerPosition, last.drawDistance) :
          nearbyChunkIDsEach(chunkSize, last.playerPosition, last.drawDistance)[i].chunkId
              \in C28_Outside
    /\ chunkDistances # EmptyMap

\* the connections handed to server.connectClient and not yet closed
C29_Connected == {i \in 1..Len(sockets) : sockets[i].connected /\ ~sockets[i].closed}

\* C29: the connections handed to server.connectClient and not yet closed are
\* never more than config.maxPlayers; a connection that arrives while that many
\* are connected is closed and not connected; every close event, that of a
\* denied connection too, decrements the counter; and a connection that arrives
\* when the counter is below the limit is connected.
C29_ConnectionLimit ==
    [][/\ Cardinality(C29_Connected') <= maxPlayers
       /\ Len(sockets') = Len(sockets) + 1 =>
             /\ Cardinality(C29_Connected) >= maxPlayers
                   => ~sockets'[Len(sockets')].connected
             /\ connections < maxPlayers => sockets'[Len(sockets')].connected
       /\ \A i \in 1..Len(sockets) :
             (~sockets[i].closed /\ sockets'[i].closed)
                => connections' = connections - 1]_vars

\* a connection was denied and has closed, and with maxPlayers clients
\* connected again a connection that arrived after it is one of them
C29_Witness ==
    /\ Cardinality(C29_Connected) = maxPlayers
    /\ \E i \in 1..Len(sockets), j \in C29_Connected :
          /\ i < j
          /\ ~sockets[i].connected
          /\ sockets[i].closed

\* C30: in every object mesh returns, the write offset of the position, the
\* texcoord and the normal buffer of each texture is at most the length of the
\* buffer, 128000 floats.
C30_OffsetsWithinPool ==
    \A k \in 1..Len(posted) :
        \A textureValue \in DOMAIN posted[k].payload :
            \A buffer \in {"position", "texcoord", "normal"} :
                posted[k].payload[textureValue][buffer] <= poolCapacity

\* the quads of the objects the calls of SpecFace returned: for the j-th call
\* of addFace with a texture, the call (q), the lower corner of the chunk
\* (base) and the j-th 18, 12 and 18 numbers of the three buffers of that
\* texture's key
EmittedQuads ==
    UNION {UNION {{[q        |-> SelectSeq(posted[k].payload.out,
                                           LAMBDA f : f.textureValue = t)[j],
                    base     |-> chunkPositionOf(MeshChunkSize, posted[k].chunkId),
                    position |-> SubSeq(posted[k].payload.object[t].position.data,
                                        (18 * (j - 1)) + 1, 18 * j),
                    texcoord |-> SubSeq(posted[k].payload.object[t].texcoord.data,
                                        (12 * (j - 1)) + 1, 12 * j),
                    normal   |-> SubSeq(posted[k].payload.object[t].normal.data,
                                        (18 * (j - 1)) + 1, 18 * j)] :
                      j \in 1..Len(SelectSeq(posted[k].payload.out,
                                             LAMBDA f : f.textureValue = t))} :
                  t \in DOMAIN posted[k].payload.object} :
           k \in 1..Len(posted)}

\* the unit vector from a voxel to the cell isFaceBlocked tests for face
C31_Toward(face) == opposingCell(face, 0, 0, 0)

\* the i-th of the 6 vertices (or normals) in 18 numbers
C31_Triple(data, i) == <<data[(3 * i) - 2], data[(3 * i) - 1], data[3 * i]>>

\* C31: every emitted face carries, on each of its 6 vertices, the unit normal
\* toward the cell isFaceBlocked tests for its direction; its vertices lie in
\* the plane on that side of the voxels of the run; and its two triangles
\* (vertices 1-3 and 4-6) cover exactly the rectangle from the run's start to
\* the far side of its end, offset by the chunk's lower corner: each triangle
\* has three corners of the rectangle, together they have all four, and the two
\* corners they share are opposite corners.
C31_FaceGeometry ==
    \A e \in EmittedQuads :
        LET n      == C31_Toward(e.q.face)
            d      == CHOOSE i \in 1..3 : n[i] # 0
            lo     == [i \in 1..3 |-> e.base[i] + e.q.start[i]]
            hi     == [i \in 1..3 |-> e.base[i] + e.q.end[i] + 1]
            plane  == IF n[d] > 0 THEN hi[d] ELSE lo[d]
            Corner == {c \in {lo[1], hi[1]} \X {lo[2], hi[2]} \X {lo[3], hi[3]} :
                          c[d] = plane}
            T1     == {C31_Triple(e.position, i) : i \in 1..3}
            T2     == {C31_Triple(e.position, i) : i \in 4..6}
        IN  /\ \A i \in 1..6 : C31_Triple(e.normal, i) = n
            /\ e.q.start[d] = e.q.end[d]
            /\ Cardinality(Corner) = 4
            /\ T1 \subseteq Corner /\ Cardinality(T1) = 3
            /\ T2 \subseteq Corner /\ Cardinality(T2) = 3
            /\ T1 \cup T2 = Corner
            /\ \A a \in T1 \cap T2 : \A b \in T1 \cap T2 :
                  a # b => \A i \in (1..3) \ {d} : a[i] # b[i]

\* a chunk whose lower corner is off the origin on every axis has been meshed,
\* and its object has a face of each of the six directions and a face over
\* more than one voxel
C31_Witness ==
    \E k \in 1..Len(posted) :
        /\ ~posted[k].payload.isNull
        /\ \A i \in 1..3 : chunkPositionOf(MeshChunkSize, posted[k].chunkId)[i] # 0
        /\ \A face \in {"front", "back", "left", "right", "top", "bottom"} :
              \E e \in EmittedQuads : e.q.face = face /\ e.base # <<0, 0, 0>>
        /\ \E e \in EmittedQuads : e.q.start # e.q.end /\ e.base # <<0, 0, 0>>

\* the numbers at the places of one parity of the 12 texcoord numbers of a
\* quad: first 1 for the coordinate written first for each vertex, 2 for the
\* second
C32_Coordinates(texcoord, first) == {texcoord[(2 * (i - 1)) + first] : i \in 1..6}

\* the voxels of the run of the emitted face q
C32_RunLength(q) == (q.end[C27_Axis(q.face)] - q.start[C27_Axis(q.face)]) + 1

\* C32: for every emitted face of every direction, the first texcoord of its
\* vertices (along the merged axis) takes the values 0 and the run length,
\* end - start + 1, and the second (along the fixed axis) the values 0 and 1.
C32_TexcoordsSpanRun ==
    \A e \in EmittedQuads :
        /\ C32_Coordinates(e.texcoord, 1) = {0, C32_RunLength(e.q)}
        /\ C32_Coordinates(e.texcoord, 2) = {0, 1}

\* the calls of addFace with texture t among the calls recorded in faces
C33_Quads(faces, t) == Cardinality({j \in 1..Len(faces) : faces[j].textureValue = t})

\* C33: in the object every call of mesh returns, each texture key has had at
\* least one quad emitted, its position and normal offsets are 18 times the
\* number of quads emitted for it and its texcoord offset 12 times that number;
\* a call that returns null has no key.
C33_BuffersParallel ==
    \A k \in 1..Len(posted) :
        LET faces  == posted[k].payload.out
            object == posted[k].payload.object
        IN  /\ posted[k].payload.isNull => DOMAIN object = {}
            /\ \A t \in DOMAIN object :
                  /\ C33_Quads(faces, t) >= 1
                  /\ object[t].position.offset = 18 * C33_Quads(faces, t)
                  /\ object[t].normal.offset = 18 * C33_Quads(faces, t)
                  /\ object[t].texcoord.offset = 12 * C33_Quads(faces, t)

\* a call of mesh has returned an object with two texture keys that have had
\* different numbers of quads emitted, one of them more than one
C33_Witness ==
    \E k \in 1..Len(posted) :
        \E t \in DOMAIN posted[k].payload.object :
            \E u \in DOMAIN posted[k].payload.object :
                /\ C33_Quads(posted[k].payload.out, t) > 1
                /\ C33_Quads(posted[k].payload.out, u) # C33_Quads(posted[k].payload.out, t)

====
